---- MODULE Spec2Model ----
(***************************************************************************)
(* Message store and synchronization protocol of the disguised chat tool.  *)
(*                                                                         *)
(* The server side is the set of route handlers of api/chat (GET, POST,    *)
(* PATCH, DELETE, PUT) and api/chat/reactions (POST).  Every handler is a  *)
(* sequence of synchronous runs separated by awaits on the storage; the    *)
(* awaits are the only places where two requests interleave.  A request in *)
(* flight occupies a slot p: it is received (body parsed and validated),   *)
(* then reads the whole list, runs its checks and its mutation on its own  *)
(* copy, then writes the whole list back.                                  *)
(***************************************************************************)
EXTENDS Integers, Sequences, FiniteSets, TLC

\* ------------------------------------------------------------------ bounds
\* Largest value of the millisecond clock (Date.now()).
MaxClock == 3
\* Number of requests the server receives in one behaviour.
MaxReq == 2
\* List requests one client may have in flight at a time.
MaxFetch == 2
\* Number of mutating requests the server receives while clients poll.
MaxMutations == 1

\* ------------------------------------------------------------------ values
Procs == {1, 2}
\* One chat client stands for each: clients only read the server and never
\* act on one another.
Clients == {"c1"}
NoClient == "none"
\* A text (a name, a message, a reaction symbol) is the sequence of its
\* UTF-16 code units, as a JavaScript string is: any code units, control
\* characters and halves of surrogate pairs among them.  Units(string) is the
\* text of a string of printable ASCII characters (the grave accent, U+0060,
\* apart, which a string here cannot hold).
Upper == " !\"#$%&'()*+,-./0123456789:;<=>?@ABCDEFGHIJKLMNOPQRSTUVWXYZ[\\]^_"
Lower == "abcdefghijklmnopqrstuvwxyz{|}~"
IndexIn(string, ch) == CHOOSE i \in 1..Len(string) : SubSeq(string, i, i) = ch
CodeUnit(ch) ==
  IF \E i \in 1..Len(Upper) : SubSeq(Upper, i, i) = ch
  THEN 31 + IndexIn(Upper, ch)
  ELSE 96 + IndexIn(Lower, ch)
RECURSIVE Units(_)
Units(string) ==
  IF string = "" THEN <<>>
  ELSE <<CodeUnit(SubSeq(string, 1, 1))>> \o Units(SubSeq(string, 2, Len(string)))
Al == Units("Al")
Bo == Units("Bo")
Up == Units("up")
Ok == Units("ok")
Hi == Units("hi")
\* The text an Edit puts in place of a message: U+00E9 (e with acute accent),
\* one code unit and two bytes of the file.
EditedText == <<233>>
Names == {Al, Bo}
Symbols == {Up, Units("constructor")}
\* A missing or empty text, and "" for a missing or empty id: both are falsy
\* in the handlers.
NoText == <<>>
Missing == ""
\* The route implementations and their storage: the adapter routes on Vercel
\* KV (USE_KV, route.ts:7) or on the local file, and the direct-file routes.
Variants == {"kv", "fs", "file"}
Adapter(v) == v \in {"kv", "fs"}
OnDisk(v) == v \in {"fs", "file"}

\* Date.now().toString()
toString(t) == ToString(t)
\* new Date().toISOString(): the instant, written as a string.
toISOString(t) == "T" \o ToString(t)

\* A behaviour starts at any moment of the server's life: the server keeps no
\* state of its own between requests, only the persisted list.  The lists
\* below are ones earlier requests produced: Al's message was created at clock
\* value 1 and Bo's at 2, Bo reacted to Al's message with Up and then Al
\* with Ok (the requests below toggle Up only, so a toggle can remove the
\* first key and create it again as the last), and Bo edited their own.
\* The clock still reads 2, the millisecond of the latest creation.
StartClock == 2
\* A reactions object: its own keys in the order Object.keys and
\* JSON.stringify enumerate them in, and the names under each key.  The keys
\* that are array indices ("0", "7", "12": the decimal form of an integer up to
\* 2^32 - 2) come first, in ascending order, the others after them in the
\* order they were created.
\* The code units of the digits "0" to "9"
Digit == 48..57
\* a comes before b as a number; both are texts of digits without leading zero.
IndexBefore(a, b) ==
  \/ Len(a) < Len(b)
  \/ /\ Len(a) = Len(b)
     /\ \E i \in 1..Len(a) :
          /\ SubSeq(a, 1, i - 1) = SubSeq(b, 1, i - 1)
          /\ a[i] < b[i]
IsArrayIndex(key) ==
  /\ Len(key) \in 1..10
  /\ \A i \in 1..Len(key) : key[i] \in Digit
  /\ Len(key) > 1 => key[1] # 48
  /\ ~IndexBefore(Units("4294967294"), key)
\* The keys once key is created.
Created(keys, key) ==
  IF IsArrayIndex(key)
  THEN LET n == Cardinality({i \in 1..Len(keys) :
                               IsArrayIndex(keys[i]) /\ IndexBefore(keys[i], key)})
       IN SubSeq(keys, 1, n) \o <<key>> \o SubSeq(keys, n + 1, Len(keys))
  ELSE Append(keys, key)
\* reactions: {} (route.ts:89)
NoReactions == [keys |-> <<>>, at |-> [s \in {} |-> <<>>]]
\* reactions[key] = names (part_000:88-90), creating the key when absent.
Assign(reactions, key, names) ==
  IF key \in DOMAIN reactions.at
  THEN [reactions EXCEPT !.at[key] = names]
  ELSE [keys |-> Created(reactions.keys, key),
        at |-> [s \in DOMAIN reactions.at \cup {key} |->
                  IF s = key THEN names ELSE reactions.at[s]]]
\* delete reactions[key] (part_000:98-100)
Delete(reactions, key) ==
  [keys |-> SelectSeq(reactions.keys, LAMBDA s : s # key),
   at |-> [s \in DOMAIN reactions.at \ {key} |-> reactions.at[s]]]

Al1 ==
  [id |-> toString(1), name |-> Al, message |-> Hi, timestamp |-> toISOString(1),
   reactions |-> NoReactions, edited |-> FALSE]
Bo2 ==
  [id |-> toString(2), name |-> Bo, message |-> Hi, timestamp |-> toISOString(2),
   reactions |-> NoReactions, edited |-> FALSE]
Al1Liked ==
  [Al1 EXCEPT !.reactions = Assign(Assign(NoReactions, Up, <<Bo>>), Ok, <<Al>>)]
Bo2Edited ==
  [id |-> toString(2), name |-> Bo, message |-> EditedText,
   timestamp |-> toISOString(2),
   reactions |-> NoReactions, edited |-> TRUE, editedAt |-> toISOString(2)]
InitialLists == {<<>>, <<Al1>>, <<Al1, Bo2>>, <<Al1Liked, Bo2Edited>>}

\* An id no message ever had.
UnknownId == toString(0)

VARIABLES
  variant,      \* which route implementation is deployed
  now,          \* the clock
  fileExists,   \* the backing file / key has been written at least once
  file,         \* the backing file's text: its bytes (size), and torn
                \* when it does not parse
  store,        \* the persisted message list
  slot,         \* per request slot: the handler's position and locals (see Idle)
  hist,         \* the last two completed requests (polls aside), oldest first
  nreq,         \* requests received so far (polls aside)
  client,       \* per chat client: the state of its ChatInterface component
  poll          \* per chat client: its list request in flight, if any

vars == <<variant, now, fileExists, file, store, slot, hist, nreq, client, poll>>

\* ------------------------------------------------------------------ records
\* Mutant: the text of a new message is dropped.
NewMessage_NoText(name, message, t, t2) ==
  [id |-> toString(t), name |-> name, message |-> NoText,
   timestamp |-> toISOString(t2), reactions |-> NoReactions, edited |-> FALSE]

\* Mutant: a new message carries an editedAt stamp.
NewMessage_Stamped(name, message, t, t2) ==
  [id |-> toString(t), name |-> name, message |-> message,
   timestamp |-> toISOString(t2), reactions |-> NoReactions, edited |-> FALSE,
   editedAt |-> toISOString(t2)]

\* The message object built by POST (route.ts:84-91): no editedAt field.  The
\* clock is read twice, by Date.now() for the id (t) and then by new Date() for
\* the timestamp (t2).
NewMessage(name, message, t, t2) ==
  [id |-> toString(t), name |-> name, message |-> message,
   timestamp |-> toISOString(t2), reactions |-> NoReactions, edited |-> FALSE]

\* Array.prototype.findIndex(msg => msg.id === id): 0 stands for -1, k for k-1.
findIndex(msgs, id) ==
  IF \E i \in 1..Len(msgs) : msgs[i].id = id
  THEN CHOOSE i \in 1..Len(msgs) :
         msgs[i].id = id /\ \A j \in 1..(i - 1) : msgs[j].id # id
  ELSE 0

\* Array.prototype.indexOf(x): 0 stands for -1.
indexOf(list, x) ==
  IF \E i \in 1..Len(list) : list[i] = x
  THEN CHOOSE i \in 1..Len(list) : list[i] = x /\ \A j \in 1..(i - 1) : list[j] # x
  ELSE 0

\* Array.prototype.splice(i, 1)
splice(list, i) == SubSeq(list, 1, i - 1) \o SubSeq(list, i + 1, Len(list))

\* Mutant: the text and editedAt are set, the edited flag is not.
EditedMessage_NoFlag(m, message, t) ==
  [f \in DOMAIN m \cup {"editedAt"} |->
     CASE f = "message" -> message
       [] f = "editedAt" -> toISOString(t)
       [] OTHER -> m[f]]

\* Mutant: an edit stamps the message anew.
EditedMessage_Restamped(m, message, t) ==
  [f \in DOMAIN m \cup {"editedAt"} |->
     CASE f = "message" -> message
       [] f = "edited" -> TRUE
       [] f \in {"editedAt", "timestamp"} -> toISOString(t)
       [] OTHER -> m[f]]

\* PATCH's three assignments to messages[messageIndex] (route.ts:143-145).
EditedMessage(m, message, t) ==
  [f \in DOMAIN m \cup {"editedAt"} |->
     CASE f = "message" -> message
       [] f = "edited" -> TRUE
       [] f = "editedAt" -> toISOString(t)
       [] OTHER -> m[f]]

\* Mutant: the ownership test left out.
NotOwner_Omitted(m, name) == FALSE

\* The ownership test of PATCH and DELETE (route.ts:135, 188): TRUE = rejected.
NotOwner(m, name) == m.name # name

\* The names of the properties a reactions object inherits from
\* Object.prototype ("constructor" stands for them: "toString", "__proto__",
\* "hasOwnProperty" and the others behave alike).
Inherited == {Units("constructor")}
\* What a toggle that throws leaves in place of the reactions.
TypeError == [threw |-> "TypeError"]

\* Mutant: an absent key is initialised and the name is not pushed.
ToggleReaction_NoPush(reactions, reaction, userName) ==
  LET r1 == IF reaction \in DOMAIN reactions.at
            THEN reactions
            ELSE Assign(reactions, reaction, <<>>)
      reactionIndex == indexOf(r1.at[reaction], userName)
      removed == splice(r1.at[reaction], reactionIndex)
  IN IF reactionIndex > 0
     THEN IF Len(removed) = 0
          THEN Delete(r1, reaction)
          ELSE [r1 EXCEPT !.at[reaction] = removed]
     ELSE IF r1.at[reaction] = <<>> THEN r1
          ELSE [r1 EXCEPT !.at[reaction] = Append(r1.at[reaction], userName)]

\* Mutant: a name toggled on is put at the head of the list.
ToggleReaction_Prepends(reactions, reaction, userName) ==
  LET r1 == IF reaction \in DOMAIN reactions.at
            THEN reactions
            ELSE Assign(reactions, reaction, <<>>)
      reactionIndex == indexOf(r1.at[reaction], userName)
      removed == splice(r1.at[reaction], reactionIndex)
  IN IF reactionIndex > 0
     THEN IF Len(removed) = 0
          THEN Delete(r1, reaction)
          ELSE [r1 EXCEPT !.at[reaction] = removed]
     ELSE [r1 EXCEPT !.at[reaction] = <<userName>> \o r1.at[reaction]]

\* Mutant: the key is kept, with an empty list, when its last name is removed.
ToggleReaction_KeepsEmptyKey(reactions, reaction, userName) ==
  LET r1 == IF reaction \in DOMAIN reactions.at
            THEN reactions
            ELSE Assign(reactions, reaction, <<>>)
      reactionIndex == indexOf(r1.at[reaction], userName)
  IN IF reactionIndex > 0
     THEN [r1 EXCEPT !.at[reaction] = splice(r1.at[reaction], reactionIndex)]
     ELSE [r1 EXCEPT !.at[reaction] = Append(r1.at[reaction], userName)]

\* Mutant: the name is pushed whether or not it is listed already.
ToggleReaction_AlwaysPushes(reactions, reaction, userName) ==
  LET r1 == IF reaction \in DOMAIN reactions.at
            THEN reactions
            ELSE Assign(reactions, reaction, <<>>)
  IN [r1 EXCEPT !.at[reaction] = Append(r1.at[reaction], userName)]

\* Mutant: the toggle keeps only the toggled symbol of the message.
ToggleReaction_DropsOthers(reactions, reaction, userName) ==
  LET r1 == IF reaction \in DOMAIN reactions.at
            THEN reactions
            ELSE Assign(reactions, reaction, <<>>)
      reactionIndex == indexOf(r1.at[reaction], userName)
      removed == splice(r1.at[reaction], reactionIndex)
  IN IF reactionIndex > 0
     THEN IF Len(removed) = 0
          THEN NoReactions
          ELSE Assign(NoReactions, reaction, removed)
     ELSE Assign(NoReactions, reaction, Append(r1.at[reaction], userName))

\* The toggle of the reactions route on one message's reactions object
\* (part_000:87-104): an absent key is initialised to [], then the name is
\* removed when present (and the key with it when the list empties) or pushed.
\* reactions[reaction] of a name the object inherits and does not own is the
\* inherited value: it is truthy, so no list is put under the key, and it has
\* no indexOf, so the call at line 93 throws.
ToggleReaction(reactions, reaction, userName) ==
  IF reaction \in Inherited /\ reaction \notin DOMAIN reactions.at
  THEN TypeError
  ELSE
  LET r1 == IF reaction \in DOMAIN reactions.at
            THEN reactions
            ELSE Assign(reactions, reaction, <<>>)
      reactionIndex == indexOf(r1.at[reaction], userName)
      removed == splice(r1.at[reaction], reactionIndex)
  IN IF reactionIndex > 0
     THEN IF Len(removed) = 0
          THEN Delete(r1, reaction)
          ELSE [r1 EXCEPT !.at[reaction] = removed]
     ELSE [r1 EXCEPT !.at[reaction] = Append(r1.at[reaction], userName)]

\* ------------------------------------------------------------------ requests
NoRequest == [kind |-> "none"]
\* The ids a client may address: those of the persisted messages, an id no
\* message has, and none at all.
IdIn == {store[i].id : i \in 1..Len(store)} \cup {UnknownId}
GetRequests == {[kind |-> "GET"]}
PostRequests ==
  {[kind |-> "POST", name |-> n, message |-> Hi] : n \in Names}
    \cup {[kind |-> "POST", name |-> NoText, message |-> Hi],
          [kind |-> "POST", name |-> Al, message |-> NoText]}
PatchRequests ==
  {[kind |-> "PATCH", id |-> i, message |-> EditedText, name |-> n] :
     i \in IdIn, n \in Names}
    \cup {[kind |-> "PATCH", id |-> Missing, message |-> EditedText, name |-> Al],
          [kind |-> "PATCH", id |-> UnknownId, message |-> NoText, name |-> Al],
          [kind |-> "PATCH", id |-> UnknownId, message |-> EditedText,
           name |-> NoText]}
DeleteRequests ==
  {[kind |-> "DELETE", id |-> i, name |-> n] : i \in IdIn, n \in Names}
    \cup {[kind |-> "DELETE", id |-> Missing, name |-> Al],
          [kind |-> "DELETE", id |-> UnknownId, name |-> NoText]}
PutRequests == {[kind |-> "PUT"]}
ReactRequests ==
  {[kind |-> "REACT", messageId |-> i, reaction |-> y, userName |-> n] :
     i \in IdIn, y \in Symbols, n \in Names}
    \cup {[kind |-> "REACT", messageId |-> Missing, reaction |-> Up,
           userName |-> Al],
          [kind |-> "REACT", messageId |-> UnknownId, reaction |-> NoText,
           userName |-> Al],
          [kind |-> "REACT", messageId |-> UnknownId, reaction |-> Up,
           userName |-> NoText]}
Requests ==
  GetRequests \cup PostRequests \cup PatchRequests \cup DeleteRequests
    \cup PutRequests \cup ReactRequests

\* The id a request addresses (PATCH/DELETE: id, reactions: messageId).
TargetId(r) ==
  CASE r.kind \in {"PATCH", "DELETE"} -> r.id
    [] r.kind = "REACT" -> r.messageId
    [] OTHER -> Missing

\* Mutant: the field checks left out.
MissingField_Skipped(r) == FALSE

\* The handlers' field checks (route.ts:73, 114, 167; part_000:62): TRUE = 400.
MissingField(r) ==
  CASE r.kind = "POST" -> r.name = NoText \/ r.message = NoText
    [] r.kind = "PATCH" -> r.id = Missing \/ r.message = NoText \/ r.name = NoText
    [] r.kind = "DELETE" -> r.id = Missing \/ r.name = NoText
    [] r.kind = "REACT" ->
         r.messageId = Missing \/ r.reaction = NoText \/ r.userName = NoText
    [] OTHER -> FALSE

\* ------------------------------------------------------------------ responses
Json(status, body) == [status |-> status, body |-> body]

BadRequest(r) ==
  Json(400, [error |->
    CASE r.kind = "POST" -> "Name and message are required"
      [] r.kind = "PATCH" -> "ID, message, and name are required"
      [] r.kind = "DELETE" -> "ID and name are required"
      [] OTHER -> "Message ID, reaction, and user name are required"])
NotFound == Json(404, [error |-> "Message not found"])
Unauthorized == Json(403, [error |-> "Unauthorized"])

\* Mutant: the failure is thrown on, out of the handler.
Caught_Rethrown(r) == Json(0, [uncaught |-> TRUE])

\* Mutant: GET's catch answers 500 like the others.
Caught_ListFails(r) ==
  CASE r.kind = "GET" -> Json(500, [error |-> "Failed to load messages"])
    [] r.kind = "POST" -> Json(500, [error |-> "Failed to save message"])
    [] r.kind = "PATCH" -> Json(500, [error |-> "Failed to update message"])
    [] r.kind = "DELETE" -> Json(500, [error |-> "Failed to delete message"])
    [] r.kind = "PUT" -> Json(500, [error |-> "Failed to clear messages"])
    [] OTHER -> Json(500, [error |-> "Failed to update reaction"])

\* Each handler's catch block (route.ts:61-64, 99-105, 151-157, 202-208, 218-224;
\* part_000:113-119): GET answers 200 with an empty list, the others 500.
Caught(r) ==
  CASE r.kind = "GET" -> Json(200, [messages |-> <<>>])
    [] r.kind = "POST" -> Json(500, [error |-> "Failed to save message"])
    [] r.kind = "PATCH" -> Json(500, [error |-> "Failed to update message"])
    [] r.kind = "DELETE" -> Json(500, [error |-> "Failed to delete message"])
    [] r.kind = "PUT" -> Json(500, [error |-> "Failed to clear messages"])
    [] OTHER -> Json(500, [error |-> "Failed to update reaction"])

\* The response after the store returned (route.ts:98, 150, 201, 217; part_000:109).
Success(r, msgs, i) ==
  CASE r.kind = "POST" -> Json(200, [success |-> TRUE, message |-> msgs[Len(msgs)]])
    [] r.kind = "PATCH" -> Json(200, [success |-> TRUE, message |-> msgs[i]])
    [] r.kind = "DELETE" -> Json(200, [success |-> TRUE])
    [] r.kind = "PUT" -> Json(200, [success |-> TRUE, message |-> "All messages cleared"])
    [] OTHER -> Json(200, [success |-> TRUE, reactions |-> msgs[i].reactions])

\* ------------------------------------------------------------------ storage format
\* The persisted document is JSON text.  It is written here as the members of
\* each object in the order JSON.stringify emits them (the order in which the
\* properties were created): an object is a sequence of <<key, value>> pairs,
\* an array a sequence.
FieldOrder == <<"id", "name", "message", "timestamp", "reactions", "edited", "editedAt">>

\* Mutant: only the first name under each symbol is written.
stringifyReactions_FirstNameOnly(reactions) ==
  [k \in 1..Len(reactions.keys) |->
     <<reactions.keys[k], SubSeq(reactions.at[reactions.keys[k]], 1, 1)>>]

\* JSON.stringify of a reactions object: one member per key it has, whatever
\* the key, in the order the keys were created.
stringifyReactions(reactions) ==
  [k \in 1..Len(reactions.keys) |->
     <<reactions.keys[k], reactions.at[reactions.keys[k]]>>]

\* JSON.stringify of a message: one member per property it has, so no
\* editedAt member for a message never edited.
stringifyMessage(m) ==
  LET keys == SelectSeq(FieldOrder, LAMBDA f : f \in DOMAIN m)
  IN [k \in 1..Len(keys) |->
        <<keys[k], IF keys[k] = "reactions" THEN stringifyReactions(m.reactions)
                   ELSE m[keys[k]]>>]

\* JSON.stringify({ messages }, null, 2) (route.ts:52, 292).
JSONstringify(messages) ==
  <<(<<"messages", [i \in 1..Len(messages) |-> stringifyMessage(messages[i])]>>)>>

\* JSON.parse of an object: a property per key, the last member of a key wins.
parseObject(members) ==
  [f \in {members[k][1] : k \in 1..Len(members)} |->
     members[CHOOSE k \in 1..Len(members) :
               /\ members[k][1] = f
               /\ \A j \in (k + 1)..Len(members) : members[j][1] # f][2]]

\* JSON.parse of a reactions object: a key is created by its first member,
\* its last member gives the names.
RECURSIVE parseKeys(_)
parseKeys(members) ==
  IF members = <<>> THEN <<>>
  ELSE LET front == parseKeys(SubSeq(members, 1, Len(members) - 1))
           key == members[Len(members)][1]
       IN IF \E k \in 1..Len(front) : front[k] = key THEN front
          ELSE Created(front, key)
parseReactions(members) == [keys |-> parseKeys(members), at |-> parseObject(members)]

parseMessage(members) ==
  LET o == parseObject(members)
  IN [f \in DOMAIN o |-> IF f = "reactions" THEN parseReactions(o[f]) ELSE o[f]]

\* JSON.parse(fileContents) (route.ts:27, 277).
JSONparse(text) ==
  LET data == parseObject(text)
  IN [messages |-> [i \in 1..Len(data.messages) |-> parseMessage(data.messages[i])]]

\* The bytes of a document: JSON.stringify({ messages }, null, 2) puts
\* one member or element to a line, indented by two spaces a level.  An id has
\* the digits of Date.now() and a timestamp the characters of toISOString(),
\* whatever stands for them here.
IdLength == 13
IsoLength == 24
\* The sizes are bytes of the file, which fs.writeFile writes as UTF-8.
HighSurrogate(unit) == unit \in 55296..56319
LowSurrogate(unit) == unit \in 56320..57343
\* The code unit of a hexadecimal digit, in lower case
Hex(n) == IF n < 10 THEN 48 + n ELSE 87 + n
\* The code units JSON.stringify writes for a code unit that is no half of a
\* surrogate pair: a backslash and a letter for the quote, the backslash,
\* backspace, tab, line feed, form feed and carriage return, \u and four
\* hexadecimal digits for every other control character and for a surrogate
\* on its own, and the code unit itself otherwise.
Escaped(unit) ==
  CASE unit = 34 -> <<92, 34>>
    [] unit = 92 -> <<92, 92>>
    [] unit = 8 -> <<92, 98>>
    [] unit = 9 -> <<92, 116>>
    [] unit = 10 -> <<92, 110>>
    [] unit = 12 -> <<92, 102>>
    [] unit = 13 -> <<92, 114>>
    [] OTHER ->
         IF unit < 32 \/ HighSurrogate(unit) \/ LowSurrogate(unit)
         THEN <<92, 117, Hex(unit \div 4096), Hex((unit \div 256) % 16),
                Hex((unit \div 16) % 16), Hex(unit % 16)>>
         ELSE <<unit>>
\* JSON.stringify of a text: the text in quotes, a surrogate pair written as
\* it is and every other code unit as Escaped gives it.
RECURSIVE EscapedText(_)
EscapedText(text) ==
  IF text = <<>> THEN <<>>
  ELSE IF Len(text) > 1 /\ HighSurrogate(text[1]) /\ LowSurrogate(text[2])
       THEN <<text[1], text[2]>> \o EscapedText(SubSeq(text, 3, Len(text)))
       ELSE Escaped(text[1]) \o EscapedText(Tail(text))
stringifyText(text) == <<34>> \o EscapedText(text) \o <<34>>
\* The bytes of a text in UTF-8: one for a code unit below U+0080, two below
\* U+0800, three for any other, and four for a surrogate pair.
RECURSIVE Utf8Length(_)
Utf8Length(text) ==
  IF text = <<>> THEN 0
  ELSE IF Len(text) > 1 /\ HighSurrogate(text[1]) /\ LowSurrogate(text[2])
       THEN 4 + Utf8Length(SubSeq(text, 3, Len(text)))
       ELSE (IF text[1] < 128 THEN 1 ELSE IF text[1] < 2048 THEN 2 ELSE 3)
              + Utf8Length(Tail(text))
\* The bytes of a text in quotes.
Quoted(text) == Utf8Length(stringifyText(text))
\* The bytes of the name of a member of a message in quotes: the names are
\* those of FieldOrder, letters that are a byte each.
QuotedKey(string) == Len(string) + 2
RECURSIVE NamesSize(_)
\* The elements of a names array, each on a line at indent 10.
NamesSize(names) ==
  IF names = <<>> THEN 0
  ELSE 10 + Quoted(Head(names)) + (IF Len(names) > 1 THEN 1 ELSE 0) + 1
         + NamesSize(Tail(names))
ArraySize(names) == IF names = <<>> THEN 2 ELSE 2 + NamesSize(names) + 8 + 1
RECURSIVE ReactionsSize(_)
\* The members of a reactions object, each from indent 8.
ReactionsSize(members) ==
  IF members = <<>> THEN 0
  ELSE 8 + Quoted(Head(members)[1]) + 2 + ArraySize(Head(members)[2])
         + (IF Len(members) > 1 THEN 1 ELSE 0) + 1 + ReactionsSize(Tail(members))
ValueSize(member) ==
  CASE member[1] = "id" -> IdLength + 2
    [] member[1] \in {"timestamp", "editedAt"} -> IsoLength + 2
    [] member[1] = "edited" -> IF member[2] THEN 4 ELSE 5
    [] member[1] = "reactions" ->
         IF member[2] = <<>> THEN 2 ELSE 2 + ReactionsSize(member[2]) + 6 + 1
    [] OTHER -> Quoted(member[2])
RECURSIVE MembersSize(_)
\* The members of a message, each on a line at indent 6.
MembersSize(members) ==
  IF members = <<>> THEN 0
  ELSE 6 + QuotedKey(Head(members)[1]) + 2 + ValueSize(Head(members))
         + (IF Len(members) > 1 THEN 1 ELSE 0) + 1 + MembersSize(Tail(members))
RECURSIVE ElementsSize(_)
\* The messages of the array, each an object from indent 4.
ElementsSize(elements) ==
  IF elements = <<>> THEN 0
  ELSE 4 + 2 + MembersSize(Head(elements)) + 4 + 1
         + (IF Len(elements) > 1 THEN 1 ELSE 0) + 1 + ElementsSize(Tail(elements))
\* The bytes of text.
Size(text) ==
  LET elements == text[1][2]
  IN 2 + 2 + QuotedKey("messages") + 2
       + (IF elements = <<>> THEN 2 ELSE 2 + ElementsSize(elements) + 2 + 1)
       + 2

\* A file that holds the text of messages, and no file at all.
Written(messages) == [size |-> Size(JSONstringify(messages)), torn |-> FALSE]
Blank == [size |-> 0, torn |-> FALSE]

\* ------------------------------------------------------------------ handlers
\* A slot: pc is the handler's position, "idle", "ensure" (awaiting
\* ensureChatFile's write), "read" (awaiting the load) or "write" (awaiting
\* the store); open whether the writeFile awaited has opened the file; req the
\* request; messages and messageIndex the handler's locals; text the
\* serialised list handed to the store.  The rest records
\* the request's history: loaded is the list as the load returned it, readOk
\* whether the storage read succeeded, begin the persisted list when the
\* request was received, before the persisted list when its writeFile opened
\* the file, solo whether no other request was in flight during this one,
\* stale whether another request stored after this one loaded, client the chat
\* client whose poll it is.
Idle ==
  [pc |-> "idle", open |-> FALSE, req |-> NoRequest, messages |-> <<>>,
   text |-> <<>>, messageIndex |-> 0, loaded |-> <<>>, readOk |-> TRUE, begin |-> <<>>,
   before |-> <<>>, solo |-> TRUE, stale |-> FALSE, client |-> NoClient]

\* What a synchronous run of a handler leaves: the slot, and the response when
\* the handler returned.
Continue(s) == [slot |-> s, done |-> FALSE, resp |-> Json(0, [pending |-> TRUE])]
Return(s, response) == [slot |-> s, done |-> TRUE, resp |-> response]

\* The handler serialises its list and calls the store: JSON.stringify is
\* evaluated when the call is made (route.ts:52, 292; KV serialises likewise).
Store(s) == Continue([s EXCEPT !.pc = "write", !.text = JSONstringify(s.messages)])

\* POST after the load (route.ts:84-96).
POST(s, t, t2) ==
  Store([s EXCEPT !.messages = Append(s.messages,
                                         NewMessage(s.req.name, s.req.message, t, t2))])

\* Mutant: only the browser "tabA" may edit.
PATCH_OneBrowserOnly(s, t) ==
  LET i == findIndex(s.messages, s.req.id)
  IN IF i = 0 THEN Return(s, NotFound)
     ELSE IF NotOwner(s.messages[i], s.req.name)
             \/ ("from" \in DOMAIN s.req /\ s.req.from # "tabA")
          THEN Return([s EXCEPT !.messageIndex = i], Unauthorized)
          ELSE Store([s EXCEPT !.messageIndex = i,
                           !.messages[i] = EditedMessage(@, s.req.message, t)])

\* PATCH after the load (route.ts:125-148).
PATCH(s, t) ==
  LET i == findIndex(s.messages, s.req.id)
  IN IF i = 0 THEN Return(s, NotFound)
     ELSE IF NotOwner(s.messages[i], s.req.name)
          THEN Return([s EXCEPT !.messageIndex = i], Unauthorized)
          ELSE Store([s EXCEPT !.messageIndex = i,
                           !.messages[i] = EditedMessage(@, s.req.message, t)])

\* DELETE after the load (route.ts:178-199).
DELETE(s) ==
  LET i == findIndex(s.messages, s.req.id)
  IN IF i = 0 THEN Return(s, NotFound)
     ELSE IF NotOwner(s.messages[i], s.req.name)
          THEN Return([s EXCEPT !.messageIndex = i], Unauthorized)
          ELSE Store([s EXCEPT !.messageIndex = i,
                           !.messages = splice(@, i)])

\* Mutant: the toggle lands on the first message, not on the one found.
REACT_FirstMessage(s) ==
  LET i == findIndex(s.messages, s.req.messageId)
      toggled == ToggleReaction(s.messages[1].reactions, s.req.reaction, s.req.userName)
  IN IF i = 0 THEN Return(s, NotFound)
     ELSE IF toggled = TypeError
     THEN Return([s EXCEPT !.messageIndex = i], Caught(s.req))
     ELSE Store([s EXCEPT !.messageIndex = i,
                      !.messages[1].reactions = toggled])

\* The reactions POST after the load (part_000:73-107); a toggle that throws
\* lands in the catch block.
REACT(s) ==
  LET i == findIndex(s.messages, s.req.messageId)
      toggled == ToggleReaction(s.messages[i].reactions, s.req.reaction, s.req.userName)
  IN IF i = 0 THEN Return(s, NotFound)
     ELSE IF toggled = TypeError
     THEN Return([s EXCEPT !.messageIndex = i], Caught(s.req))
     ELSE Store([s EXCEPT !.messageIndex = i,
                      !.messages[i].reactions = toggled])

\* GET after the load (route.ts:59-60, 251-253).
GET(s) == Return(s, Json(200, [messages |-> s.messages]))

\* Mutant: the list read is written back as it is.
PUT_KeepsList(s) == Store(s)

\* PUT of the direct-file routes after the load (route.ts:423-426).
PUT(s) == Store([s EXCEPT !.messages = <<>>])

\* The synchronous run from the load's return to the store call or the response.
AfterLoad(s, t, t2) ==
  CASE s.req.kind = "GET" -> GET(s)
    [] s.req.kind = "POST" -> POST(s, t, t2)
    [] s.req.kind = "PATCH" -> PATCH(s, t)
    [] s.req.kind = "DELETE" -> DELETE(s)
    [] s.req.kind = "PUT" -> PUT(s)
    [] OTHER -> REACT(s)

\* getMessages (route.ts:13-33): a failed read is swallowed and yields [].
getMessages(ok) == IF ok THEN store ELSE <<>>

\* The synchronous run from the parsed body to the first storage call: the
\* field checks, then the load; the adapter's PUT calls saveMessages([]) at once
\* (route.ts:215).
Enter(s, v) ==
  IF MissingField(s.req) THEN Return(s, BadRequest(s.req))
  ELSE IF s.req.kind = "PUT" /\ Adapter(v)
       THEN Store([s EXCEPT !.messages = <<>>])
       ELSE Continue([s EXCEPT !.pc = "read"])

\* ------------------------------------------------------------------ history
\* What is kept of a completed request: the request, its response, whether it
\* ran alone, whether its storage read succeeded, the persisted list when it
\* was received (begin), the list its load returned, whether it called the
\* store, whether another request stored after its load, the index it found,
\* the list it handed to the store, the persisted list right before its last
\* storage call (before the writeFile that call made opened the file) and
\* right after its last step, and whether that step left a file that does not
\* parse (torn).
Entry(s, response, after, torn) ==
  [req |-> s.req, resp |-> response, solo |-> s.solo, readOk |-> s.readOk,
   begin |-> s.begin, loaded |-> s.loaded, wrote |-> s.pc = "write",
   stale |-> s.stale, index |-> s.messageIndex, handed |-> s.messages,
   before |-> IF s.open THEN s.before ELSE store, after |-> after, torn |-> torn]

\* Of the request before the last, only the first five are kept.
Older(e) ==
  [req |-> e.req, resp |-> e.resp, solo |-> e.solo, readOk |-> e.readOk,
   begin |-> e.begin]

Push(e) == IF hist = <<>> THEN <<e>> ELSE <<Older(hist[Len(hist)]), e>>

\* The slots and the history after slot p's run left o; f adjusts the other
\* slots, after is the persisted list the step leaves (and file' the file).
Ran(p, o, f(_), after) ==
  /\ slot' = [q \in Procs |-> IF q = p THEN (IF o.done THEN Idle ELSE o.slot)
                                       ELSE f(slot[q])]
  /\ hist' = IF o.done /\ o.slot.client = NoClient
             THEN Push(Entry(o.slot, o.resp, after, file'.torn))
             ELSE hist

Same(s) == s
Overlapped(s) == IF s.pc = "idle" THEN s ELSE [s EXCEPT !.solo = FALSE]
Overwritten(s) == IF s.pc = "write" THEN [s EXCEPT !.stale = TRUE] ELSE s

\* ------------------------------------------------------------------ client
\* ChatInterface's state (ChatInterface.tsx:23, 30, 42).
Mounted == [messages |-> <<>>, lastMessageId |-> "", newMessageIds |-> {}]

NoPoll == [state |-> "none"]
\* A list request in flight, handled in slot p.
Sent(p) == [state |-> "sent", slot |-> p, messages |-> <<>>, readOk |-> TRUE]
\* response.json() of the list request, and data.messages || [] (line 77-78);
\* readOk remembers whether the storage read behind the response succeeded.
Back(response, ok) ==
  [state |-> "back", slot |-> 0, messages |-> response.body.messages, readOk |-> ok]

\* The polls after the run of slot p left o: the response of a completed list
\* request travels back to the client that sent it.
Deliver(p, o) ==
  IF o.done /\ o.slot.client # NoClient
  THEN [poll EXCEPT ![o.slot.client] =
          [k \in 1..Len(@) |->
             IF @[k].state = "sent" /\ @[k].slot = p
             THEN Back(o.resp, o.slot.readOk) ELSE @[k]]]
  ELSE poll

\* Mutant: the new ids are marked but the list is never replaced.
fetchMessages_OnlyMarks(c, newMessages, previous) ==
  LET hasNewMessage ==
        /\ Len(newMessages) > 0
        /\ newMessages[Len(newMessages)].id # c.lastMessageId
      previousIds == {previous[i].id : i \in 1..Len(previous)}
      newIds == {newMessages[i].id : i \in 1..Len(newMessages)} \ previousIds
  IN [messages |-> c.messages,
      lastMessageId |->
        IF Len(newMessages) > 0 THEN newMessages[Len(newMessages)].id
        ELSE c.lastMessageId,
      newMessageIds |->
        IF hasNewMessage /\ newIds # {} THEN newIds ELSE c.newMessageIds]

\* fetchMessages from the response on (ChatInterface.tsx:78-105).  previous is
\* the messages state the callback closed over.
fetchMessages(c, newMessages, previous) ==
  LET hasNewMessage ==
        /\ Len(newMessages) > 0
        /\ newMessages[Len(newMessages)].id # c.lastMessageId
      previousIds == {previous[i].id : i \in 1..Len(previous)}
      newIds == {newMessages[i].id : i \in 1..Len(newMessages)} \ previousIds
  IN [messages |-> newMessages,
      lastMessageId |->
        IF Len(newMessages) > 0 THEN newMessages[Len(newMessages)].id
        ELSE c.lastMessageId,
      newMessageIds |->
        IF hasNewMessage /\ newIds # {} THEN newIds ELSE c.newMessageIds]

\* ------------------------------------------------------------------ actions
Init ==
  /\ variant \in Variants
  /\ now = StartClock
  /\ store \in InitialLists
  /\ fileExists = (store # <<>>)
  /\ file = IF OnDisk(variant) /\ fileExists THEN Written(store) ELSE Blank
  /\ slot = [p \in Procs |-> Idle]
  /\ hist = <<>>
  /\ nreq = 0
  /\ client = [c \in Clients |-> Mounted]
  /\ poll = [c \in Clients |-> <<>>]

\* The clock advances.
Tick ==
  /\ now < MaxClock
  /\ now' = now + 1
  /\ UNCHANGED <<variant, fileExists, file, store, slot, hist, nreq, client, poll>>

\* Request r of client c (NoClient: any caller) arrives and takes the first
\* free slot.  The direct-file routes first call ensureChatFile
\* (route.ts:238-245), which writes an empty list when the file is absent; the
\* adapter routes go straight to the field checks.
Arrive(p, r, c) ==
  /\ slot[p].pc = "idle"
  /\ \A q \in Procs : q < p => slot[q].pc # "idle"
  /\ UNCHANGED <<variant, now, fileExists, file, store, client>>
  /\ LET s == [Idle EXCEPT !.req = r, !.begin = store, !.client = c,
                           !.solo = \A q \in Procs \ {p} : slot[q].pc = "idle"]
     IN IF variant = "file" /\ ~fileExists
        THEN Ran(p, Continue([s EXCEPT !.pc = "ensure"]), Overlapped, store)
        ELSE Ran(p, Enter(s, variant), Overlapped, store)

\* A request arrives from any caller.
Receive(p, r) ==
  /\ nreq < MaxReq
  /\ nreq' = nreq + 1
  /\ Arrive(p, r, NoClient)
  /\ UNCHANGED poll

\* fs.writeFile (route.ts:52, 243, 292) is not one step: it opens the file,
\* which empties it (flag 'w'), then writes the text from the start of the
\* file, then returns.  This is the open of the writeFile slot p awaits: the
\* file exists and holds no text, which does not parse.
Open(p) ==
  /\ OnDisk(variant)
  /\ slot[p].pc \in {"ensure", "write"}
  /\ ~slot[p].open
  /\ store' = <<>>
  /\ file' = [size |-> 0, torn |-> TRUE]
  /\ fileExists' = TRUE
  /\ Ran(p, Continue([slot[p] EXCEPT !.open = TRUE, !.before = store]), Overwritten, <<>>)
  /\ UNCHANGED <<variant, now, nreq, client, poll>>

\* The file after text was written from its start: the text alone when it is at
\* least as long as what the file held, else the text followed by the rest of
\* what the file held, which does not parse.
WrittenOver(text) ==
  IF Size(text) >= file.size THEN [size |-> Size(text), torn |-> FALSE]
  ELSE [size |-> file.size, torn |-> TRUE]

\* ensureChatFile's writeFile returns: the text of an empty list was written
\* and the handler goes on; or the call threw, before it opened the file or
\* after (the file is left as it is then), and the handler's catch answers.
EnsureChatFile(p, ok) ==
  /\ slot[p].pc = "ensure"
  /\ ok => slot[p].open
  /\ LET o == IF ok THEN Enter([slot[p] EXCEPT !.open = FALSE], variant)
                    ELSE Return(slot[p], Caught(slot[p].req))
     IN IF ok
        THEN /\ store' = <<>>
             /\ file' = WrittenOver(JSONstringify(<<>>))
             /\ Ran(p, o, Overwritten, <<>>)
             /\ poll' = Deliver(p, o)
             /\ UNCHANGED fileExists
        ELSE /\ UNCHANGED <<store, fileExists, file>>
             /\ Ran(p, o, Same, store)
             /\ poll' = Deliver(p, o)
  /\ UNCHANGED <<variant, now, nreq, client>>

\* What the handler in slot s does when the load returns, under route
\* implementation v.  The adapter's getMessages turns a failed read into [];
\* in the direct-file routes readFile/JSON.parse throw into the catch.
Loaded(s, v, ok, t, t2) ==
  LET msgs == getMessages(ok)
  IN IF v = "file" /\ ~ok
     THEN Return([s EXCEPT !.readOk = FALSE], Caught(s.req))
     ELSE AfterLoad([s EXCEPT !.messages = msgs, !.loaded = msgs,
                              !.readOk = ok, !.stale = FALSE], t, t2)

\* The load returns and the handler runs on to its store call or its response.
\* A file whose text does not parse cannot be read with success.  Only POST
\* reads the clock a second time in that run: the clock may have moved on to
\* t2 by then.
Load(p, ok) ==
  /\ slot[p].pc = "read"
  /\ ok = TRUE => ~file.torn
  /\ UNCHANGED <<variant, fileExists, file, store, nreq, client>>
  /\ \E t2 \in now..MaxClock :
       LET o == Loaded(slot[p], variant, ok, now, t2)
       IN /\ t2 # now => (slot[p].req.kind = "POST" /\ ~o.done)
          /\ now' = t2
          /\ Ran(p, o, Same, store)
          /\ poll' = Deliver(p, o)

\* The store returns (saveMessages, route.ts:36-54; fs.writeFile in the
\* direct-file routes).  On KV the set is one call: the whole list is replaced.
\* On the file the text was written over what the file held since this
\* writeFile opened it.  Or the call threw: before the open, when nothing has
\* changed, or after it, when the file is left as it is, emptied by the open
\* or holding what another writeFile wrote since.
Save(p, ok) ==
  /\ slot[p].pc = "write"
  /\ (OnDisk(variant) /\ ok) => slot[p].open
  /\ IF ok
     THEN LET written == IF OnDisk(variant) THEN WrittenOver(slot[p].text) ELSE file
              after == IF written.torn THEN <<>> ELSE JSONparse(slot[p].text).messages
          IN /\ store' = after
             /\ file' = written
             /\ fileExists' = TRUE
             /\ Ran(p, Return(slot[p], Success(slot[p].req, slot[p].messages,
                                               slot[p].messageIndex)), Overwritten,
                     after)
     ELSE /\ UNCHANGED <<store, fileExists, file>>
          /\ Ran(p, Return(slot[p], Caught(slot[p].req)), Same, store)
  /\ UNCHANGED <<variant, now, nreq, client, poll>>

Next ==
  \/ Tick
  \/ \E p \in Procs, r \in Requests : Receive(p, r)
  \/ \E p \in Procs : Open(p)
  \/ \E p \in Procs, ok \in BOOLEAN : EnsureChatFile(p, ok)
  \/ \E p \in Procs, ok \in BOOLEAN : Load(p, ok)
  \/ \E p \in Procs, ok \in BOOLEAN : Save(p, ok)

Spec == Init /\ [][Next]_vars

\* ------------------------------------------------------------------ polling
\* poll[c] holds the list requests client c has in flight, oldest first.
\* The interval timer of client c fires (ChatInterface.tsx:118-123):
\* fetch('/api/chat'), whether or not an earlier call has returned.
Poll(c) ==
  /\ Len(poll[c]) < MaxFetch
  /\ \E p \in Procs :
       /\ Arrive(p, [kind |-> "GET"], c)
       /\ poll' = [poll EXCEPT ![c] = Append(@, Sent(p))]
  /\ UNCHANGED nreq

\* A response reaches client c, in whatever order the responses come.  The
\* timer calls the fetchMessages of the first render, whose messages state is
\* the initial empty list.
Fetched(c, k) ==
  /\ k \in 1..Len(poll[c])
  /\ poll[c][k].state = "back"
  /\ client' = [client EXCEPT ![c] = fetchMessages(@, poll[c][k].messages, <<>>)]
  /\ poll' = [poll EXCEPT ![c] = splice(@, k)]
  /\ UNCHANGED <<variant, now, fileExists, file, store, slot, hist, nreq>>

\* The response is lost on its way, or its body does not parse.
Fail(c, k) ==
  /\ k \in 1..Len(poll[c])
  /\ poll[c][k].state = "back"
  /\ poll' = [poll EXCEPT ![c][k] = [@ EXCEPT !.state = "failed", !.messages = <<>>]]
  /\ UNCHANGED <<variant, now, fileExists, file, store, slot, hist, nreq, client>>

\* The fetch rejects: the catch logs it (lines 113-115) and the component's
\* state stays as it is.
Rejected(c, k) ==
  /\ k \in 1..Len(poll[c])
  /\ poll[c][k].state = "failed"
  /\ poll' = [poll EXCEPT ![c] = splice(@, k)]
  /\ UNCHANGED <<variant, now, fileExists, file, store, slot, hist, nreq, client>>

\* A 500 ms timer armed with the marks (lines 94-96) fires:
\* setNewMessageIds(new Set()).
ClearMarks(c) ==
  /\ client[c].newMessageIds # {}
  /\ client' = [client EXCEPT ![c].newMessageIds = {}]
  /\ UNCHANGED <<variant, now, fileExists, file, store, slot, hist, nreq, poll>>

\* The mutating requests sent while clients poll: a Create, the Deletes of the
\* persisted messages under either name, and a ClearAll.
PollRequests ==
  {[kind |-> "POST", name |-> Al, message |-> Hi], [kind |-> "PUT"]}
    \cup {[kind |-> "DELETE", id |-> store[i].id, name |-> n] :
            i \in 1..Len(store), n \in Names}

\* A mutating request arrives while clients poll.
Mutate(p, r) ==
  /\ nreq < MaxMutations
  /\ nreq' = nreq + 1
  /\ Arrive(p, r, NoClient)
  /\ UNCHANGED poll

\* Requests and polls together.  The clock moves only between the two
\* readings of a Create (Load): what the clients converge to does not depend on
\* the ids and timestamps the Creates give.
PollNext ==
  \/ \E p \in Procs, r \in PollRequests : Mutate(p, r)
  \/ \E p \in Procs : Open(p)
  \/ \E p \in Procs, ok \in BOOLEAN : EnsureChatFile(p, ok)
  \/ \E p \in Procs, ok \in BOOLEAN : Load(p, ok)
  \/ \E p \in Procs, ok \in BOOLEAN : Save(p, ok)
  \/ \E c \in Clients : Poll(c)
  \/ \E c \in Clients, k \in 1..MaxFetch : Fetched(c, k)
  \/ \E c \in Clients, k \in 1..MaxFetch : Fail(c, k)
  \/ \E c \in Clients, k \in 1..MaxFetch : Rejected(c, k)
  \/ \E c \in Clients : ClearMarks(c)

\* Storage calls return, the interval timer keeps firing and every response
\* that has arrived is handled.
Fairness ==
  /\ \A p \in Procs : WF_vars(Open(p))
  /\ \A p \in Procs : WF_vars(\E ok \in BOOLEAN : EnsureChatFile(p, ok))
  /\ \A p \in Procs : WF_vars(\E ok \in BOOLEAN : Load(p, ok))
  /\ \A p \in Procs : WF_vars(\E ok \in BOOLEAN : Save(p, ok))
  /\ \A c \in Clients : WF_vars(Poll(c))
  /\ \A c \in Clients : WF_vars(Fetched(c, 1) \/ Rejected(c, 1))

PollSpec == Init /\ [][PollNext]_vars /\ Fairness

\* ------------------------------------------------------------------ vocabulary
\* The last completed request, and the one completed before it.
Completed == hist # <<>>
Last == hist[Len(hist)]
Pair == Len(hist) = 2
First == hist[1]

IdsOf(list) == {list[i].id : i \in 1..Len(list)}
Mutating(r) == r.kind \in {"POST", "PATCH", "DELETE", "REACT", "PUT"}
Succeeded(e) == e.resp.status = 200 /\ Mutating(e.req)
\* The store of e left the list e handed to it, unless it left a file that does
\* not parse (its text was written over a longer text that another writeFile,
\* opened at the same time, had written).
Kept(e) == ~e.torn => e.after = e.handed

\* name is listed under symbol y of the message id resolves to; y is a key of it.
Reacted(list, id, y, name) ==
  LET i == findIndex(list, id)
  IN /\ i > 0
     /\ y \in DOMAIN list[i].reactions.at
     /\ \E k \in 1..Len(list[i].reactions.at[y]) : list[i].reactions.at[y][k] = name
HasKey(list, id, y) ==
  LET i == findIndex(list, id) IN i > 0 /\ y \in DOMAIN list[i].reactions.at

\* ------------------------------------------------------------------ C1
\* C1 (as claimed): no two messages of the persisted list have the same id, and
\* every successful Create assigned an id that no message of the list it
\* loaded already had.
C1_UniqueIds ==
  /\ \A i, j \in 1..Len(store) : i # j => store[i].id # store[j].id
  /\ (Completed /\ Last.req.kind = "POST" /\ Last.resp.status = 200)
       => Last.resp.body.message.id \notin IdsOf(Last.loaded)

\* ------------------------------------------------------------------ C2
\* C2: an Edit or Delete whose id resolves, in the list it loaded, to a message
\* stored under another name answers 403 Unauthorized, never calls the store
\* and leaves the persisted list as it was.
C2_Case(e) ==
  /\ e.req.kind \in {"PATCH", "DELETE"}
  /\ ~MissingField(e.req)
  /\ findIndex(e.loaded, e.req.id) > 0
  /\ e.loaded[findIndex(e.loaded, e.req.id)].name # e.req.name
C2_WrongNameIsUnauthorized ==
  (Completed /\ C2_Case(Last))
    => /\ Last.resp = Unauthorized
       /\ Last.resp.status = 403
       /\ ~Last.wrote
       /\ Last.after = Last.before
C2_Witness ==
  /\ Completed /\ C2_Case(Last)
  /\ Last.req.kind = "DELETE" /\ Last.before # <<>> /\ Last.resp.status = 403

\* ------------------------------------------------------------------ C3
\* C3: two ToggleReaction requests with the same (id, symbol, name), both
\* successful and run back to back with no other request in between, leave the
\* name's membership under the symbol, and the presence of the symbol key, as
\* they were before the first.
C3_Case ==
  /\ Pair
  /\ First.req.kind = "REACT" /\ Last.req = First.req
  /\ First.resp.status = 200 /\ Last.resp.status = 200
  /\ First.solo /\ Last.solo
C3_ToggleTwice ==
  C3_Case =>
    LET r == Last.req
    IN /\ Last.begin = Last.before
       /\ Reacted(Last.after, r.messageId, r.reaction, r.userName)
            <=> Reacted(First.begin, r.messageId, r.reaction, r.userName)
       /\ HasKey(Last.after, r.messageId, r.reaction)
            <=> HasKey(First.begin, r.messageId, r.reaction)
\* The pair toggled on and then off a symbol the message did not have.
C3_Witness ==
  /\ C3_Case
  /\ ~HasKey(First.begin, Last.req.messageId, Last.req.reaction)
  /\ HasKey(Last.before, Last.req.messageId, Last.req.reaction)
  /\ ~HasKey(Last.after, Last.req.messageId, Last.req.reaction)

\* ------------------------------------------------------------------ C4
\* C4 (as claimed): after a successful Delete(id, name) the persisted list holds
\* no message with that id, and it is the list the request loaded without the
\* message deleted: every other message unchanged and in the same order.
C4_Case(e) == e.req.kind = "DELETE" /\ e.resp.status = 200
C4_DeleteRemovesId ==
  (Completed /\ C4_Case(Last))
    => /\ Last.req.id \notin IdsOf(Last.after)
       /\ Last.after = splice(Last.loaded, Last.index)
       /\ ~Last.stale => Last.loaded = Last.before

\* ------------------------------------------------------------------ C5
\* C5 (as claimed): a successful Create run alone, followed with no request in
\* between by a List whose read succeeds: the List returns the list as it was
\* before the Create with the created message appended as its last element.
C5_Case ==
  /\ Pair
  /\ First.req.kind = "POST" /\ First.resp.status = 200 /\ First.solo
  /\ Last.req.kind = "GET" /\ Last.solo /\ Last.readOk
C5_ListAfterCreate ==
  C5_Case => Last.resp.body.messages = Append(First.begin, First.resp.body.message)

\* ------------------------------------------------------------------ C6
\* C6: a successful writer replaces the persisted list by its own whole list
\* (provided its text is not written over a longer text of a store opened at the
\* same time), built from the list it loaded and from nothing stored since; so
\* a writer whose load preceded another writer's store undoes that store.
C6_Own(e) ==
  LET i == e.index
  IN CASE e.req.kind = "POST" -> e.handed = Append(e.loaded, e.resp.body.message)
       [] e.req.kind = "PUT" -> e.handed = <<>>
       [] e.req.kind = "DELETE" -> e.handed = splice(e.loaded, i)
       [] e.req.kind = "PATCH" ->
            /\ Len(e.handed) = Len(e.loaded)
            /\ \A j \in 1..Len(e.loaded) : j # i => e.handed[j] = e.loaded[j]
            /\ e.handed[i].id = e.loaded[i].id
            /\ e.handed[i].reactions = e.loaded[i].reactions
       [] OTHER ->
            /\ Len(e.handed) = Len(e.loaded)
            /\ \A j \in 1..Len(e.loaded) : j # i => e.handed[j] = e.loaded[j]
            /\ e.handed[i].id = e.loaded[i].id
            /\ e.handed[i].message = e.loaded[i].message
            /\ e.handed[i].reactions = e.resp.body.reactions
C6_WriterOverwrites == (Completed /\ Succeeded(Last)) => C6_Own(Last) /\ Kept(Last)
\* Two reactions on different messages both succeeded, and the persisted list
\* holds the second's and has lost the first's.
C6_Witness ==
  /\ Pair
  /\ First.req.kind = "REACT" /\ Last.req.kind = "REACT"
  /\ First.resp.status = 200 /\ Last.resp.status = 200
  /\ First.req.messageId # Last.req.messageId
  /\ Last.stale /\ ~Last.torn
  /\ store = Last.after
  /\ Reacted(Last.before, First.req.messageId, First.req.reaction, First.req.userName)
  /\ ~Reacted(store, First.req.messageId, First.req.reaction, First.req.userName)
  /\ Reacted(store, Last.req.messageId, Last.req.reaction, Last.req.userName)

\* ------------------------------------------------------------------ C7
\* a is b with some elements dropped.
RECURSIVE IsSubsequence(_, _)
IsSubsequence(a, b) ==
  IF a = <<>> THEN TRUE
  ELSE IF b = <<>> THEN FALSE
  ELSE IF Head(a) = Head(b) THEN IsSubsequence(Tail(a), Tail(b))
  ELSE IsSubsequence(a, Tail(b))
\* A message is told by its id; of messages with one id, by their rank among
\* them, so that a list with a repeated id still tells its messages apart.
KeySeq(list) ==
  [i \in 1..Len(list) |->
     <<list[i].id, Cardinality({j \in 1..i : list[j].id = list[i].id})>>]
\* after is before with messages removed and new messages appended at the tail.
AppendOrRemoveOnly(before, after) ==
  \E k \in 0..Len(after) :
    /\ IsSubsequence(SubSeq(KeySeq(after), 1, k), KeySeq(before))
    /\ \A j \in (k + 1)..Len(after) :
         \A i \in 1..Len(before) : KeySeq(after)[j] # KeySeq(before)[i]
\* C7 (as claimed): every step that changes the persisted list keeps the
\* relative order of the messages that stay and puts every message that was
\* not there before at the tail.
C7_OrderKept == [][AppendOrRemoveOnly(store, store')]_vars

\* ------------------------------------------------------------------ C9
\* C9: a successful ClearAll stores the empty list, whatever the persisted list
\* held and whoever wrote its messages, and the request carries no name; the
\* persisted list is empty after its store, a torn file apart (Kept).
C9_Case(e) == e.req.kind = "PUT" /\ e.resp.status = 200
C9_ClearAllEmpties ==
  (Completed /\ C9_Case(Last))
    => /\ Last.handed = <<>> /\ Last.wrote /\ DOMAIN Last.req = {"kind"}
       /\ Kept(Last)
\* The list cleared held messages of two authors.
C9_Witness ==
  /\ Completed /\ C9_Case(Last)
  /\ {Last.before[i].name : i \in 1..Len(Last.before)} = Names
  /\ store = <<>> /\ ~Last.torn

\* ------------------------------------------------------------------ C10
\* C10: a successful Edit changes, in the list it loaded, only the target: its
\* text becomes the request's, edited becomes true and editedAt is set; its id,
\* name, timestamp, reactions and position, and every other message, are as
\* they were; the response carries the message as stored, and the list so
\* changed is the persisted list after the store, a torn file apart (Kept).
C10_Case(e) == e.req.kind = "PATCH" /\ e.resp.status = 200
C10_EditFrame ==
  (Completed /\ C10_Case(Last))
    => LET i == Last.index
           old == Last.loaded
           new == Last.handed
       IN /\ Kept(Last)
          /\ i \in 1..Len(old)
          /\ old[i].id = Last.req.id
          /\ Len(new) = Len(old)
          /\ \A j \in 1..Len(old) : j # i => new[j] = old[j]
          /\ new[i].id = old[i].id
          /\ new[i].name = old[i].name
          /\ new[i].timestamp = old[i].timestamp
          /\ new[i].reactions = old[i].reactions
          /\ new[i].message = Last.req.message
          /\ new[i].edited = TRUE
          /\ "editedAt" \in DOMAIN new[i]
          /\ DOMAIN new[i] = DOMAIN old[i] \cup {"editedAt"}
          /\ Last.resp.body.message = new[i]
          /\ ~Last.stale => old = Last.before
\* The message edited had a reaction and a neighbour, and had not been edited.
C10_Witness ==
  /\ Completed /\ C10_Case(Last)
  /\ Len(Last.loaded) = 2
  /\ Last.loaded[Last.index].reactions # NoReactions
  /\ ~Last.loaded[Last.index].edited
  /\ store = Last.after /\ ~Last.torn

\* ------------------------------------------------------------------ C8
\* A storage read fails.
FailedRead == \E p \in Procs : Load(p, FALSE)
\* A list request of a client fails.
FailedPoll == \E c \in Clients, k \in 1..MaxFetch : Fail(c, k)
Converged == ~file.torn /\ \A c \in Clients : client[c].messages = store
\* C8: if from some point on no storage read and no poll fails (and no mutating
\* request is issued: a behaviour holds at most MaxMutations of them), every
\* polling client's list eventually equals the persisted list and stays equal
\* to it.
C8_PollsConverge == <>[][~FailedRead /\ ~FailedPoll]_vars => <>[]Converged
\* The client holds the list a successful mutation left.
C8_Witness ==
  /\ Completed /\ Succeeded(Last) /\ Last.after # Last.before
  /\ store = Last.after /\ store # <<>>
  /\ Converged

\* ------------------------------------------------------------------ C11
\* C11 (as claimed): a Create, Edit, Delete or ToggleReaction during which the
\* storage read failed answers 500, never calls the store and leaves the
\* persisted list as it was.
C11_Case(e) == e.req.kind \in {"POST", "PATCH", "DELETE", "REACT"} /\ ~e.readOk
C11_LoadFailureSurfaces ==
  (Completed /\ C11_Case(Last))
    => /\ Last.resp.status = 500
       /\ ~Last.wrote
       /\ Last.after = Last.before

\* ------------------------------------------------------------------ C12
\* The handler of e called the store and the store failed: a store that
\* succeeds is always answered 200.
StoreFailed(e) == Mutating(e.req) /\ e.wrote /\ e.resp.status # 200
\* C12 (as claimed): a mutating request whose store fails answers 500 with its
\* handler's error, and the persisted list after it is the list persisted
\* before its store call: replaced whole or not at all.
C12_StoreFailureSurfaces ==
  (Completed /\ StoreFailed(Last))
    => /\ Last.resp.status = 500
       /\ Last.resp = Caught(Last.req)
       /\ ~Last.torn
       /\ Last.after = Last.before

\* ------------------------------------------------------------------ C13
\* Some field of the request is missing or empty (every field of an Edit, a
\* Delete and a ToggleReaction is required).
SomeFieldEmpty(r) ==
  \/ \E f \in DOMAIN r \cap {"id", "messageId"} : r[f] = Missing
  \/ \E f \in DOMAIN r \cap {"name", "message", "reaction", "userName"} :
       r[f] = NoText
\* The status the order of checks prescribes for request r on the list loaded.
StatusInOrder(r, loaded) ==
  IF SomeFieldEmpty(r) THEN 400
  ELSE IF \A i \in 1..Len(loaded) : loaded[i].id # TargetId(r) THEN 404
  ELSE IF r.kind # "REACT" /\ loaded[findIndex(loaded, TargetId(r))].name # r.name THEN 403
  ELSE 200
\* C13: answers of 500 aside (storage failures, and the toggle that throws, for
\* which see C21), an Edit, a Delete and a ToggleReaction answer
\* 400 for a missing field whatever the list holds (the list is not even
\* loaded), else 404 for an id with no message, else (Edit, Delete) 403 for
\* another name than the stored one, and succeed only otherwise.
C13_Case(e) == e.req.kind \in {"PATCH", "DELETE", "REACT"} /\ e.resp.status # 500
C13_ChecksInOrder ==
  (Completed /\ C13_Case(Last))
    => /\ Last.resp.status = StatusInOrder(Last.req, Last.loaded)
       /\ SomeFieldEmpty(Last.req)
            => Last.resp = BadRequest(Last.req) /\ Last.loaded = <<>> /\ ~Last.wrote
       /\ Last.resp.status = 404 => Last.resp = NotFound /\ ~Last.wrote
       /\ Last.resp.status = 403 => Last.resp = Unauthorized /\ ~Last.wrote
       /\ Last.resp.status = 200 => Last.wrote
\* An Edit with no id answered 400 although the list holds messages of the
\* name it gives, after a Delete of an unknown id answered 404.
C13_Witness ==
  /\ Pair
  /\ First.req.kind = "DELETE" /\ First.resp.status = 404
  /\ C13_Case(Last) /\ Last.req.kind = "PATCH"
  /\ Last.req.id = Missing /\ Last.resp.status = 400
  /\ \E i \in 1..Len(store) : store[i].name = Last.req.name

\* ------------------------------------------------------------------ C14
\* C14: in the persisted list every reaction symbol of every message has at
\* least one name under it.
C14_NoEmptyReaction ==
  \A i \in 1..Len(store) :
    \A y \in DOMAIN store[i].reactions.at : Len(store[i].reactions.at[y]) > 0
\* A toggle took the last name off a symbol and the persisted message has lost
\* the key.
C14_Witness ==
  /\ Completed /\ Last.req.kind = "REACT" /\ Last.resp.status = 200
  /\ HasKey(Last.loaded, Last.req.messageId, Last.req.reaction)
  /\ store = Last.after /\ ~Last.torn
  /\ ~HasKey(store, Last.req.messageId, Last.req.reaction)

\* ------------------------------------------------------------------ C15
Listed(reactions, y, name) ==
  y \in DOMAIN reactions.at /\ \E k \in 1..Len(reactions.at[y]) : reactions.at[y][k] = name
NamesUnder(reactions, y) == IF y \in DOMAIN reactions.at THEN reactions.at[y] ELSE <<>>
\* C15: a successful ToggleReaction(id, symbol, name) takes the name off the
\* symbol's list when it was on it, and appends it otherwise, creating the key
\* when absent; nothing else of the message's reactions changes, the response
\* carries the reactions the request stored, and the list it stored is the
\* persisted list after the store, a torn file apart (Kept).
C15_Case(e) == e.req.kind = "REACT" /\ e.resp.status = 200
C15_ToggleOnOff ==
  (Completed /\ C15_Case(Last))
    => LET i == Last.index
           y == Last.req.reaction
           n == Last.req.userName
           old == Last.loaded[i].reactions
           new == Last.handed[i].reactions
       IN /\ Kept(Last)
          /\ i > 0 /\ i = findIndex(Last.loaded, Last.req.messageId)
          /\ Listed(old, y, n)
               => /\ ~Listed(new, y, n)
                  /\ NamesUnder(new, y) = SelectSeq(old.at[y], LAMBDA x : x # n)
          /\ ~Listed(old, y, n)
               => /\ y \in DOMAIN new.at
                  /\ new.at[y] = Append(NamesUnder(old, y), n)
          /\ \A z \in (DOMAIN old.at \cup DOMAIN new.at) \ {y} :
               z \in DOMAIN old.at /\ z \in DOMAIN new.at /\ new.at[z] = old.at[z]
          /\ SelectSeq(new.keys, LAMBDA z : z # y) = SelectSeq(old.keys, LAMBDA z : z # y)
          /\ Last.resp.body.reactions = new
\* A second name was toggled on under a symbol that had one.
C15_Witness ==
  /\ Completed /\ C15_Case(Last)
  /\ HasKey(Last.loaded, Last.req.messageId, Last.req.reaction)
  /\ ~Reacted(Last.loaded, Last.req.messageId, Last.req.reaction, Last.req.userName)
  /\ store = Last.after /\ ~Last.torn
  /\ Len(Last.resp.body.reactions.at[Last.req.reaction]) = 2

\* ------------------------------------------------------------------ C16
\* Two records are versions of one message: same id, author and creation
\* timestamp.
SameMessage(a, b) == a.id = b.id /\ a.name = b.name /\ a.timestamp = b.timestamp
\* C16 (as claimed): a message whose edited flag is true in the persisted list
\* has it true after every step that keeps the message.
C16_EditedStays ==
  [][\A i \in 1..Len(store), j \in 1..Len(store') :
       (SameMessage(store[i], store'[j]) /\ store[i].edited) => store'[j].edited]_vars

\* ------------------------------------------------------------------ C17
\* C17: in the persisted list a message whose edited flag is false has no
\* editedAt field.
C17_UneditedHasNoStamp ==
  \A i \in 1..Len(store) : ~store[i].edited => "editedAt" \notin DOMAIN store[i]
\* After a successful Edit the list holds the edited message, stamped, next to
\* a message created during the behaviour and never edited.
C17_Witness ==
  /\ Pair
  /\ First.req.kind = "POST" /\ First.resp.status = 200
  /\ Last.req.kind = "PATCH" /\ Last.resp.status = 200
  /\ store = Last.after /\ ~Last.torn
  /\ "editedAt" \in DOMAIN store[Last.index]
  /\ \E i \in 1..Len(store) :
       ~store[i].edited /\ store[i].id = First.resp.body.message.id

\* ------------------------------------------------------------------ C18
\* The clock value an id was derived from.
ClockOf(id) == CHOOSE t \in 0..MaxClock : toString(t) = id
\* C18 (as claimed): of two messages of the persisted list the earlier one has
\* the strictly smaller id.
C18_IdsIncrease ==
  \A i, j \in 1..Len(store) : i < j => ClockOf(store[i].id) < ClockOf(store[j].id)

\* ------------------------------------------------------------------ C19
\* A message is followed by its place in the list, not by its id: ids repeat
\* (C1), and a Delete of one of two messages with one id leaves the other.
\* C19: every successful request hands to the store a list in which each
\* message it loaded and kept has the id, name and timestamp it was loaded
\* with: an Edit or a toggle the loaded list with every message in its place, a
\* Delete the loaded list less one message, a Create the loaded list with one
\* message more at the end; and that list is the persisted list after the
\* store, a torn file apart (Kept).
C19_Case(e) == Succeeded(e) /\ e.req.kind # "PUT"
C19_IdentityKept ==
  (Completed /\ C19_Case(Last))
    => LET old == Last.loaded
           new == Last.handed
       IN /\ Kept(Last)
          /\ Last.req.kind \in {"PATCH", "REACT"}
               => /\ Len(new) = Len(old)
                  /\ \A j \in 1..Len(old) : SameMessage(old[j], new[j])
          /\ Last.req.kind = "DELETE"
               => \E i \in 1..Len(old) :
                    /\ new = splice(old, i)
                    /\ old[i].id = Last.req.id /\ old[i].name = Last.req.name
          /\ Last.req.kind = "POST"
               => Len(new) = Len(old) + 1 /\ SubSeq(new, 1, Len(old)) = old
\* A Create gave its message the id of Bo's, Bo's was then deleted, and the
\* message with that id still persisted is the one created, under its name.
C19_Witness ==
  /\ Pair
  /\ First.req.kind = "POST" /\ Succeeded(First)
  /\ Last.req.kind = "DELETE" /\ Succeeded(Last)
  /\ store = Last.after /\ ~Last.torn
  /\ \E i \in 1..Len(store) :
       /\ store[i].id = Last.req.id /\ store[i].name # Last.req.name
       /\ store[i] = First.resp.body.message

\* ------------------------------------------------------------------ senders
\* The browsers requests come from.  A request carries its origin (from), as
\* an HTTP request does; the handlers read the body and the query only.
Browsers == {"tabA", "tabB"}
\* What the browsers send: Creates under the name Al, and Edits and Deletes
\* of any id under any name.
BrowserRequests ==
  {[kind |-> "POST", name |-> Al, message |-> Hi, from |-> b] : b \in Browsers}
    \cup {[kind |-> "PATCH", id |-> i, message |-> EditedText, name |-> n, from |-> b] :
            i \in IdIn, n \in Names, b \in Browsers}
    \cup {[kind |-> "DELETE", id |-> i, name |-> n, from |-> b] :
            i \in IdIn, n \in Names, b \in Browsers}

BrowserNext ==
  \/ Tick
  \/ \E p \in Procs, r \in BrowserRequests : Receive(p, r)
  \/ \E p \in Procs : Open(p)
  \/ \E p \in Procs, ok \in BOOLEAN : EnsureChatFile(p, ok)
  \/ \E p \in Procs, ok \in BOOLEAN : Load(p, ok)
  \/ \E p \in Procs, ok \in BOOLEAN : Save(p, ok)

BrowserSpec == Init /\ [][BrowserNext]_vars

\* ------------------------------------------------------------------ C20
\* What the handler of slot s does once the load has returned list, had the
\* request come from browser b.
OutcomeFrom(s, list, b) ==
  AfterLoad([s EXCEPT !.messages = list, !.loaded = list, !.req.from = b], now, now)
\* C20: the outcome of an Edit or a Delete is the same whichever browser sends
\* it: the response and the list to be stored are those the handler gives the
\* same request from any other browser on the same list; and of the completed
\* ones that found their message and met no storage failure, those under the
\* stored name succeeded and those under another name got 403.
C20_Case(e) ==
  /\ e.req.kind \in {"PATCH", "DELETE"}
  /\ e.resp.status # 500
  /\ e.req.id \in IdsOf(e.loaded)
C20_NameAloneDecides ==
  /\ \A p \in Procs :
       (slot[p].pc = "read" /\ slot[p].req.kind \in {"PATCH", "DELETE"})
         => \A b \in Browsers :
              LET mine == OutcomeFrom(slot[p], store, slot[p].req.from)
                  theirs == OutcomeFrom(slot[p], store, b)
              IN /\ theirs.resp = mine.resp
                 /\ theirs.done = mine.done
                 /\ theirs.slot.messages = mine.slot.messages
  /\ (Completed /\ C20_Case(Last))
       => LET m == Last.loaded[findIndex(Last.loaded, Last.req.id)]
          IN /\ m.name = Last.req.name => Last.resp.status = 200
             /\ m.name # Last.req.name => Last.resp.status = 403
\* One browser created a message under the name Al; the other browser then
\* edited that message by giving the name Al.
C20_Witness ==
  /\ Pair
  /\ First.req.kind = "POST" /\ First.resp.status = 200
  /\ Last.req.kind = "PATCH" /\ Last.resp.status = 200
  /\ Last.req.from # First.req.from
  /\ Last.req.id = First.resp.body.message.id
  /\ Last.resp.body.message.timestamp = First.resp.body.message.timestamp
  /\ Last.req.id \notin IdsOf(First.begin)
  /\ Last.req.name = First.req.name

\* ------------------------------------------------------------------ C21
\* C21 (as claimed): no ToggleReaction is ever answered 403; and a
\* ToggleReaction with its three fields on a message of the list it loaded,
\* whose storage read and store did not fail, succeeds, whether or not the
\* name is the message's author.
C21_Case(e) ==
  /\ e.req.kind = "REACT" /\ ~SomeFieldEmpty(e.req)
  /\ e.req.messageId \in IdsOf(e.loaded)
  /\ e.readOk /\ ~StoreFailed(e)
C21_AnyoneReacts ==
  /\ (Completed /\ Last.req.kind = "REACT") => Last.resp.status # 403
  /\ (Completed /\ C21_Case(Last)) => Last.resp.status = 200 /\ Last.wrote

\* ------------------------------------------------------------------ C22
\* C22: every List is answered 200; one whose storage read failed carries an
\* empty list, and so does one that ran alone on a store that held nothing.
C22_Case(e) == e.req.kind = "GET"
C22_ListDegrades ==
  (Completed /\ C22_Case(Last))
    => /\ Last.resp.status = 200
       /\ ~Last.readOk => Last.resp = Json(200, [messages |-> <<>>])
       /\ (Last.solo /\ Last.begin = <<>>) => Last.resp = Json(200, [messages |-> <<>>])
\* A List whose read failed answered an empty list while messages are stored.
C22_Witness ==
  /\ Completed /\ C22_Case(Last)
  /\ ~Last.readOk /\ store # <<>> /\ Last.solo
  /\ Last.resp.body.messages = <<>>

\* ------------------------------------------------------------------ C23
\* C23 (as claimed): a Create with a missing field, and an Edit, a Delete or a
\* ToggleReaction answered 400 or 404, called no store and its last step left
\* the persisted list as it was; a Create with a missing field met no storage
\* failure is answered 400.
C23_Case(e) ==
  /\ e.req.kind \in {"POST", "PATCH", "DELETE", "REACT"}
  /\ e.resp.status \in {400, 404}
C23_RejectedLeavesList ==
  /\ (Completed /\ C23_Case(Last)) => ~Last.wrote /\ Last.after = Last.before
  /\ (Completed /\ Last.req.kind = "POST" /\ SomeFieldEmpty(Last.req)
         /\ Last.resp.status # 500)
       => Last.resp.status = 400

\* ------------------------------------------------------------------ C24
\* C24: the message a successful Create returns has the name and the text of
\* the request, no reactions, edited false and no editedAt, and is the last
\* message of the list the request stored, which is the persisted list after
\* the store, a torn file apart (Kept).
C24_Case(e) == e.req.kind = "POST" /\ e.resp.status = 200
C24_CreatedMessage ==
  (Completed /\ C24_Case(Last))
    => LET m == Last.resp.body.message
       IN /\ m.name = Last.req.name
          /\ m.message = Last.req.message
          /\ DOMAIN m.reactions.at = {}
          /\ m.edited = FALSE
          /\ "editedAt" \notin DOMAIN m
          /\ DOMAIN m = {"id", "name", "message", "timestamp", "reactions", "edited"}
          /\ Last.handed # <<>> /\ Last.handed[Len(Last.handed)] = m
          /\ Last.handed = Append(Last.loaded, m)
          /\ Kept(Last)
\* Bo created a message after two messages, one of them with a reaction.
C24_Witness ==
  /\ Completed /\ C24_Case(Last)
  /\ Last.req.name = Bo
  /\ Len(Last.loaded) = 2 /\ Last.loaded[1].reactions # NoReactions
  /\ store = Last.after /\ ~Last.torn

\* ------------------------------------------------------------------ view
\* The chat client with its scroll state, against the lists a server may
\* answer.  shouldAutoScroll is shouldAutoScrollRef (ChatInterface.tsx:43),
\* nearBottom what isNearBottom() would return (46-53), scrollTimers the
\* number of 100 ms timers of line 109 pending.  handlers holds the calls of
\* sendMessage, handleDeleteMessage and handleReact under way, oldest first:
\* of each its kind, its stage ("posting" while its own request is awaited,
\* "fetching" while its list request is, "answered" once the response of that
\* is on its way) and its closure, the messages state of the render the call
\* came from.
MaxTimers == 2
\* Handler calls one client may have under way at a time.
MaxHandlers == 2

MountedView ==
  [messages |-> <<>>, lastMessageId |-> "", newMessageIds |-> {},
   shouldAutoScroll |-> TRUE, nearBottom |-> TRUE, scrollTimers |-> 0,
   handlers |-> <<>>]

\* The lists a poll may be answered with.
PolledLists ==
  InitialLists \cup {<<Bo2>>, <<Al1, Bo2, NewMessage(Al, Hi, MaxClock, MaxClock)>>}

\* hasNewMessage of fetchMessages (ChatInterface.tsx:81-82).
hasNewMessage(c, newMessages) ==
  /\ Len(newMessages) > 0
  /\ newMessages[Len(newMessages)].id # c.lastMessageId

ViewInit ==
  /\ variant = "kv"
  /\ file = Blank
  /\ now = StartClock
  /\ store = <<>>
  /\ fileExists = FALSE
  /\ slot = [p \in Procs |-> Idle]
  /\ hist = <<>>
  /\ nreq = 0
  /\ client = [c \in Clients |-> MountedView]
  /\ poll = [c \in Clients |-> NoPoll]

\* A list response on its way to the client: previous is the messages state
\* the fetchMessages that sent the request closed over, handler whether a
\* handler sent it.
Response(list, previous, handler) ==
  [state |-> "back", messages |-> list, previous |-> previous, handler |-> handler]

\* The interval timer of client c fired and the server answered its list
\* request with list.  The timer calls the fetchMessages of the first render,
\* whose messages state is the initial empty list.
Answered(c, list) ==
  /\ poll[c] = NoPoll
  /\ poll' = [poll EXCEPT ![c] = Response(list, <<>>, FALSE)]
  /\ UNCHANGED <<variant, now, fileExists, file, store, slot, hist, nreq, client>>

\* loading (ChatInterface.tsx:29): a call of sendMessage is under way, from
\* setLoading(true) to its finally (lines 143, 188).
loading(handlers) == \E h \in 1..Len(handlers) : handlers[h].kind = "send"

\* The user sends or edits a message ("send") or reacts ("react"; deleting a
\* message goes the same way): the handler of the current render sends its
\* request (ChatInterface.tsx:147, 167, 195, 211), whether or not another
\* call is under way; sendMessage alone returns at once while loading (141).
Handle(c, kind) ==
  /\ Len(client[c].handlers) < MaxHandlers
  /\ kind = "send" => ~loading(client[c].handlers)
  /\ client' = [client EXCEPT ![c].handlers =
       Append(@, [kind |-> kind, stage |-> "posting",
                  closure |-> client[c].messages])]
  /\ UNCHANGED <<variant, now, fileExists, file, store, slot, hist, nreq, poll>>

\* The request of the h-th handler under way is answered: when response.ok
\* it calls fetchMessages, sendMessage after setting shouldAutoScrollRef
\* (lines 162, 180); otherwise it ends.
Handled(c, h, ok) ==
  /\ h \in 1..Len(client[c].handlers)
  /\ client[c].handlers[h].stage = "posting"
  /\ client' = [client EXCEPT
       ![c].handlers = IF ok THEN [@ EXCEPT ![h].stage = "fetching"]
                       ELSE splice(@, h),
       ![c].shouldAutoScroll =
          IF ok /\ client[c].handlers[h].kind = "send" THEN TRUE ELSE @]
  /\ UNCHANGED <<variant, now, fileExists, file, store, slot, hist, nreq, poll>>

\* The server answered the list request of the h-th handler with list.
Refreshed(c, h, list) ==
  /\ poll[c] = NoPoll
  /\ h \in 1..Len(client[c].handlers)
  /\ client[c].handlers[h].stage = "fetching"
  /\ poll' = [poll EXCEPT ![c] =
       Response(list, client[c].handlers[h].closure, TRUE)]
  /\ client' = [client EXCEPT ![c].handlers[h].stage = "answered"]
  /\ UNCHANGED <<variant, now, fileExists, file, store, slot, hist, nreq>>

\* The handlers under way once the one whose list response was handled has
\* returned.
Returned(handlers, handler) ==
  IF handler THEN SelectSeq(handlers, LAMBDA x : x.stage # "answered")
  ELSE handlers

\* Mutant: the scroll timer is armed for every new tail, whatever the flag.
FetchedView_AlwaysScrolls(c, near) ==
  /\ poll[c].state = "back"
  /\ client[c].scrollTimers < MaxTimers
  /\ LET newMessages == poll[c].messages
         f == fetchMessages(client[c], newMessages, poll[c].previous)
     IN /\ near # client[c].nearBottom => newMessages # client[c].messages
        /\ client' = [client EXCEPT ![c] =
             [@ EXCEPT !.messages = f.messages,
                       !.lastMessageId = f.lastMessageId,
                       !.newMessageIds = f.newMessageIds,
                       !.nearBottom = near,
                       !.handlers = Returned(@, poll[c].handler),
                       !.scrollTimers =
                          IF hasNewMessage(client[c], newMessages)
                          THEN @ + 1 ELSE @]]
  /\ poll' = [poll EXCEPT ![c] = NoPoll]
  /\ UNCHANGED <<variant, now, fileExists, file, store, slot, hist, nreq>>

\* fetchMessages from the response on (ChatInterface.tsx:78-112): the list
\* state, and one more scroll timer when the tail is new and the auto-scroll
\* flag is set.  Rendering a changed list changes the height of the content,
\* so isNearBottom() may answer differently afterwards (near), with no scroll
\* event.
FetchedView(c, near) ==
  /\ poll[c].state = "back"
  /\ client[c].scrollTimers < MaxTimers
  /\ LET newMessages == poll[c].messages
         f == fetchMessages(client[c], newMessages, poll[c].previous)
     IN /\ near # client[c].nearBottom => newMessages # client[c].messages
        /\ client' = [client EXCEPT ![c] =
             [@ EXCEPT !.messages = f.messages,
                       !.lastMessageId = f.lastMessageId,
                       !.newMessageIds = f.newMessageIds,
                       !.nearBottom = near,
                       !.handlers = Returned(@, poll[c].handler),
                       !.scrollTimers =
                          IF hasNewMessage(client[c], newMessages)
                               /\ client[c].shouldAutoScroll
                          THEN @ + 1 ELSE @]]
  /\ poll' = [poll EXCEPT ![c] = NoPoll]
  /\ UNCHANGED <<variant, now, fileExists, file, store, slot, hist, nreq>>

\* A scroll event, of the user's scrolling or of a smooth scroll under way:
\* handleScroll sets the flag to isNearBottom() (ChatInterface.tsx:66-68).
handleScroll(c, near) ==
  /\ client[c].nearBottom # near \/ client[c].shouldAutoScroll # near
  /\ client' = [client EXCEPT ![c].nearBottom = near, ![c].shouldAutoScroll = near]
  /\ UNCHANGED <<variant, now, fileExists, file, store, slot, hist, nreq, poll>>

\* A 100 ms timer fires: scrollToBottom(true) (lines 55-59, 109-111) starts a
\* smooth scroll to the end whatever the flag; the flag moves only with the
\* scroll events that follow.
scrollToBottom(c) ==
  /\ client[c].scrollTimers > 0
  /\ client' = [client EXCEPT ![c].scrollTimers = @ - 1]
  /\ UNCHANGED <<variant, now, fileExists, file, store, slot, hist, nreq, poll>>

ViewNext ==
  \/ \E c \in Clients, list \in PolledLists : Answered(c, list)
  \/ \E c \in Clients, kind \in {"send", "react"} : Handle(c, kind)
  \/ \E c \in Clients, h \in 1..MaxHandlers, ok \in BOOLEAN : Handled(c, h, ok)
  \/ \E c \in Clients, h \in 1..MaxHandlers, list \in PolledLists : Refreshed(c, h, list)
  \/ \E c \in Clients, near \in BOOLEAN : FetchedView(c, near)
  \/ \E c \in Clients : ClearMarks(c)
  \/ \E c \in Clients, near \in BOOLEAN : handleScroll(c, near)
  \/ \E c \in Clients : scrollToBottom(c)

ViewSpec == ViewInit /\ [][ViewNext]_vars

\* ------------------------------------------------------------------ C25
\* C25 (as claimed): a poll that marks messages as newly arrived marks exactly
\* the ids of the polled list that are not ids of the list the client held
\* right before it.
C25_MarksTheDelta ==
  [][\A c \in Clients :
       (poll[c].state = "back" /\ poll'[c] = NoPoll)
         => \/ client'[c].newMessageIds = client[c].newMessageIds
            \/ client'[c].newMessageIds =
                 IdsOf(poll[c].messages) \ IdsOf(client[c].messages)]_vars

\* ------------------------------------------------------------------ C26
\* C26 (as claimed): the client is never scrolled to the end by a poll's timer
\* while its auto-scroll flag is false.
C26_NeverForced ==
  [][\A c \in Clients : scrollToBottom(c) => client[c].shouldAutoScroll]_vars
\* C26 (amended): a poll response arms the scroll to the end only when the
\* polled list has a new tail and the auto-scroll flag is true at that moment.
C26_ArmedOnlyNearBottom ==
  [][\A c \in Clients :
       client'[c].scrollTimers > client[c].scrollTimers
         => /\ poll[c].state = "back"
            /\ client[c].shouldAutoScroll
            /\ hasNewMessage(client[c], poll[c].messages)]_vars
\* A timer is pending and the user has scrolled away from the end since.
C26_Witness ==
  \E c \in Clients :
    /\ client[c].scrollTimers > 0
    /\ ~client[c].shouldAutoScroll /\ ~client[c].nearBottom
    /\ Len(client[c].messages) = 3

\* ------------------------------------------------------------------ C27
\* Every storage call returns, with a result or a failure.
StorageReturns ==
  /\ \A p \in Procs : WF_vars(Open(p))
  /\ \A p \in Procs : WF_vars(\E ok \in BOOLEAN : EnsureChatFile(p, ok))
  /\ \A p \in Procs : WF_vars(\E ok \in BOOLEAN : Load(p, ok))
  /\ \A p \in Procs : WF_vars(\E ok \in BOOLEAN : Save(p, ok))

\* The persisted lists the requests start from when termination is checked:
\* no file yet, and one message.
FairLists == {<<>>, <<Al1>>}
FairInit == Init /\ store \in FairLists

FairSpec == FairInit /\ [][Next]_vars /\ StorageReturns

\* A success, or an error object under one of the error statuses.
Structured(response) ==
  \/ response.status = 200
  \/ response.status \in {400, 403, 404, 500} /\ DOMAIN response.body = {"error"}
\* The next step of the request in slot p can be taken.
CanStep(p) ==
  \/ ENABLED (\E ok \in BOOLEAN : EnsureChatFile(p, ok))
  \/ ENABLED (\E ok \in BOOLEAN : Load(p, ok))
  \/ ENABLED (\E ok \in BOOLEAN : Save(p, ok))
\* C27: every request in flight is answered, provided its storage calls
\* return; every answer is a success or a structured error with status 400,
\* 403, 404 or 500, whatever the input and the storage failures; and a request
\* in flight can always take its next step, whatever the other requests do.
C27_EveryRequestAnswered ==
  /\ [](Completed => Structured(Last.resp))
  /\ [](\A p \in Procs : slot[p].pc # "idle" => CanStep(p))
  /\ \A p \in Procs : (slot[p].pc # "idle") ~> (slot[p].pc = "idle")
\* A request was answered 500 while another request was still in flight.
C27_Witness ==
  /\ Completed /\ Last.resp.status = 500 /\ ~Last.solo
  /\ \E p \in Procs : slot[p].pc = "write"

\* ------------------------------------------------------------------ C28
\* C28 (as claimed): no step of a List changes the persisted list, and a List
\* whose read succeeds answers the persisted list as it is.
C28_ListOnlyReads ==
  [][\A p \in Procs :
       slot[p].req.kind = "GET"
         => /\ (Open(p) \/ (\E ok \in BOOLEAN : EnsureChatFile(p, ok))
                  \/ (\E ok \in BOOLEAN : Load(p, ok)))
                 => store' = store
            /\ Load(p, TRUE)
                 => hist'[Len(hist')].resp = Json(200, [messages |-> store])]_vars

\* ------------------------------------------------------------------ C29
\* C29: every list a handler hands to the store is read back identical from
\* the text the store writes (same messages in the same order, same fields,
\* same names under the same symbols); and the persisted list after a store
\* that succeeded with no other request in flight, and after any store that
\* left a file that parses, is the list handed to it.
C29_RoundTrip ==
  /\ \A p \in Procs :
       slot[p].pc = "write"
         => JSONparse(JSONstringify(slot[p].messages)).messages = slot[p].messages
  /\ (Completed /\ Last.wrote /\ Last.resp.status = 200)
       => /\ Kept(Last)
          /\ Last.solo => ~Last.torn /\ Last.after = Last.handed
\* The list stored and read back has a message with two names under a symbol
\* and an edited message with its editedAt.
C29_Witness ==
  /\ Completed /\ Last.wrote /\ Last.resp.status = 200
  /\ store = Last.after /\ ~Last.torn /\ Len(store) = 2
  /\ Up \in DOMAIN store[1].reactions.at /\ Len(store[1].reactions.at[Up]) = 2
  /\ "editedAt" \in DOMAIN store[2]

\* ------------------------------------------------------------------ C30
\* C30 (as claimed): whatever the request awaiting its load (List, Create,
\* Edit, Delete, ToggleReaction), the persisted list and the outcome of the
\* read, the adapter routes and the direct-file routes give the same response
\* and hand the same list to the store.
C30_VariantsAgree ==
  \A p \in Procs :
    (slot[p].pc = "read" /\ slot[p].req.kind # "PUT")
      => \A ok \in BOOLEAN :
         \A t2 \in now..MaxClock :
           LET a == Loaded(slot[p], "fs", ok, now, t2)
               f == Loaded(slot[p], "file", ok, now, t2)
           IN /\ a.done = f.done
              /\ a.resp = f.resp
              /\ a.slot.pc = f.slot.pc
              /\ a.slot.messages = f.slot.messages

\* ------------------------------------------------------------------ C31
\* The checks of a request have passed on the list it loaded: no field is
\* missing, the target was found, and for Edit and Delete the name is the
\* target's.
ChecksPassed(s) ==
  /\ ~SomeFieldEmpty(s.req)
  /\ s.req.kind \in {"PATCH", "DELETE", "REACT"}
       => /\ s.messageIndex > 0
          /\ s.loaded[s.messageIndex].id = TargetId(s.req)
  /\ s.req.kind \in {"PATCH", "DELETE"}
       => s.loaded[s.messageIndex].name = s.req.name

\* The write to the storage that slot p's request awaits completes in this step.
Stores(p) == EnsureChatFile(p, TRUE) \/ Save(p, TRUE)

\* C31 (as claimed): every mutating request starts with no list of an earlier
\* request, reaches its store call only out of its own load of the whole
\* persisted list, writes to the storage only once its field, existence and
\* ownership checks have passed, and ends with that one write.
C31_LoadThenOneStore ==
  [][\A p \in Procs :
       /\ (slot[p].pc = "idle" /\ Mutating(slot'[p].req))
            => slot'[p].messages = <<>> /\ slot'[p].loaded = <<>>
       /\ (Mutating(slot'[p].req) /\ slot[p].pc # "write" /\ slot'[p].pc = "write")
            => /\ \E ok \in BOOLEAN : Load(p, ok)
               /\ slot'[p].loaded \in {store, <<>>}
       /\ (Mutating(slot[p].req) /\ Stores(p))
            => /\ slot[p].pc = "write"
               /\ ChecksPassed(slot[p])
               /\ slot'[p].pc = "idle"]_vars

\* The same, setting aside the two places where the routes differ from it: the
\* adapter's ClearAll, which stores without loading, and ensureChatFile's write
\* in the direct-file routes.
C31_SaveAfterChecks ==
  [][\A p \in Procs :
       /\ (slot[p].pc = "idle" /\ Mutating(slot'[p].req))
            => slot'[p].messages = <<>> /\ slot'[p].loaded = <<>>
       /\ (Mutating(slot'[p].req) /\ slot[p].pc # "write" /\ slot'[p].pc = "write"
             /\ ~(Adapter(variant) /\ slot'[p].req.kind = "PUT"))
            => /\ \E ok \in BOOLEAN : Load(p, ok)
               /\ slot'[p].loaded \in {store, <<>>}
       /\ (Mutating(slot[p].req) /\ Save(p, TRUE))
            => /\ slot[p].pc = "write"
               /\ ChecksPassed(slot[p])
               /\ slot'[p].pc = "idle"]_vars

\* ------------------------------------------------------------------ C32
\* C32 (as claimed): a poll arms the scroll to the end only if the polled list
\* holds an id that the list the client displayed before it does not, and the
\* auto-scroll flag is set; a polled list that only lost messages arms nothing.
C32_ScrollsOnlyForNewMessage ==
  [][\A c \in Clients :
       (poll[c].state = "back" /\ client'[c].scrollTimers > client[c].scrollTimers)
         => /\ IdsOf(poll[c].messages) \ IdsOf(client[c].messages) # {}
            /\ client[c].shouldAutoScroll]_vars

\* ------------------------------------------------------------------ C33
\* C33: a successful ToggleReaction hands to the store the list it loaded with
\* one change, the names under the given symbol of the target: the list has
\* the same length and order, every other message is the same, the target
\* keeps its id, name, message, timestamp, edited and editedAt (present or
\* absent as before), and every other symbol of the target keeps its names;
\* that list is the persisted list after the store, a torn file apart (Kept).
C33_Case(e) == Succeeded(e) /\ e.req.kind = "REACT"
C33_ToggleFrame ==
  (Completed /\ C33_Case(Last))
    => LET b == Last.loaded
           a == Last.handed
           i == Last.index
           y == Last.req.reaction
       IN /\ Kept(Last)
          /\ Len(a) = Len(b)
          /\ \A j \in 1..Len(a) : j # i => a[j] = b[j]
          /\ DOMAIN a[i] = DOMAIN b[i]
          /\ \A f \in DOMAIN a[i] \ {"reactions"} : a[i][f] = b[i][f]
          /\ DOMAIN a[i].reactions.at \ {y} = DOMAIN b[i].reactions.at \ {y}
          /\ \A z \in DOMAIN a[i].reactions.at \ {y} :
               a[i].reactions.at[z] = b[i].reactions.at[z]
          /\ NamesUnder(a[i].reactions, y) # NamesUnder(b[i].reactions, y)
\* A toggle of Up succeeded on the first of two messages, which carries
\* names under Ok too and was edited; the second message is an edited one.
C33_Witness ==
  /\ Completed /\ C33_Case(Last)
  /\ ~Last.torn
  /\ Len(Last.after) = 2 /\ Last.index = 1
  /\ Ok \in DOMAIN Last.after[1].reactions.at
  /\ Last.after[2].edited

\* ------------------------------------------------------------------ C34
\* C34: in the persisted list, whatever the interleaving of the requests, no
\* name is listed twice under a symbol of a message.
C34_NamesOnce ==
  \A i \in 1..Len(store) :
    \A y \in DOMAIN store[i].reactions.at :
      \A j, k \in 1..Len(store[i].reactions.at[y]) :
        j # k => store[i].reactions.at[y][j] # store[i].reactions.at[y][k]
\* Two toggles of the same symbol on the same message overlapped, both
\* succeeded, and the persisted message lists two names under the symbol.
C34_Witness ==
  /\ Pair
  /\ C33_Case(Last) /\ ~Last.solo
  /\ First.req.kind = "REACT" /\ First.resp.status = 200
  /\ TargetId(First.req) = TargetId(Last.req)
  /\ store = Last.after /\ ~Last.torn
  /\ \E i \in 1..Len(store) :
       Up \in DOMAIN store[i].reactions.at /\ Len(store[i].reactions.at[Up]) = 2

\* ------------------------------------------------------------------ C35
\* The ids of the messages of list created before the first millisecond of
\* the behaviour: no later Create can produce them again.
CreatedEarlier(list) == {id \in IdsOf(list) : ClockOf(id) < StartClock}

\* C35 (as claimed): after a successful ClearAll no message that was in the
\* persisted list when the ClearAll was received is in the persisted list, and
\* after a successful Delete the deleted message is not, whatever requests
\* were in flight meanwhile.
C35_GoneStaysGone ==
  \A k \in 1..Len(hist) :
    /\ (hist[k].req.kind = "PUT" /\ hist[k].resp.status = 200)
         => CreatedEarlier(hist[k].begin) \cap IdsOf(store) = {}
    /\ (hist[k].req.kind = "DELETE" /\ hist[k].resp.status = 200)
         => CreatedEarlier(hist[k].begin) \cap {hist[k].req.id} \cap IdsOf(store) = {}

\* An Edit that loaded before a ClearAll succeeded stores after it, and the
\* two messages the ClearAll removed are persisted again.
C35_Race ==
  /\ Pair
  /\ First.req.kind = "PUT" /\ First.resp.status = 200 /\ Len(First.begin) = 2
  /\ Last.req.kind = "PATCH" /\ Last.resp.status = 200 /\ Last.stale
  /\ variant = "file"
  /\ store = Last.after /\ Len(store) = 2

\* ------------------------------------------------------------------ overlapping list requests
\* One client whose list requests overlap: the interval timer calls
\* fetchMessages every 2 s whether or not the previous call has returned
\* (ChatInterface.tsx:118-123), and sendMessage, handleDeleteMessage and
\* handleReact call it after their own request (162, 181, 200, 224).  Here
\* poll[c] is the sequence of the client's list requests in flight, nreq
\* counts the reads the server has served, and the client remembers which
\* read its displayed list came from (readAt, 0 before the first) and, for
\* each handler whose own request is awaited, the messages state of the render
\* the handler was called in (closures).
MaxReads == 3

MountedFetch ==
  [messages |-> <<>>, lastMessageId |-> "", newMessageIds |-> {}, readAt |-> 0,
   closures |-> <<>>]

FetchInit ==
  /\ variant = "kv"
  /\ file = Blank
  /\ now = StartClock
  /\ store \in InitialLists
  /\ fileExists = (store # <<>>)
  /\ slot = [p \in Procs |-> Idle]
  /\ hist = <<>>
  /\ nreq = 0
  /\ client = [c \in Clients |-> MountedFetch]
  /\ poll = [c \in Clients |-> <<>>]

\* Some request's saveMessages(list) returned (route.ts:36-54): the key is
\* written, whether or not list is the list it held.
Stored(list) ==
  /\ store' = list
  /\ fileExists' = TRUE
  /\ UNCHANGED <<variant, now, file, slot, hist, nreq, client, poll>>

\* The user sends, edits, deletes or reacts: the handler of the current
\* render sends its own request (ChatInterface.tsx:147, 167, 195, 211).  Its
\* fetchMessages is the one of that render, whose messages state is the list
\* shown now.
Called(c) ==
  /\ Len(client[c].closures) < MaxHandlers
  /\ client' = [client EXCEPT ![c].closures = Append(@, client[c].messages)]
  /\ UNCHANGED <<variant, now, fileExists, file, store, slot, hist, nreq, poll>>

\* The own request of the h-th handler awaited is answered not ok, or
\* rejects: the handler ends without a list request (lines 158, 176, 199,
\* 222).
Refused(c, h) ==
  /\ h \in 1..Len(client[c].closures)
  /\ client' = [client EXCEPT ![c].closures = splice(@, h)]
  /\ UNCHANGED <<variant, now, fileExists, file, store, slot, hist, nreq, poll>>

\* fetchMessages is called and sends its GET (ChatInterface.tsx:76): by the
\* interval timer (h = 0), whose callback is the one of the first render,
\* with messages = [], or by the h-th handler awaited, whose own request was
\* answered ok, with the messages of the render the handler was called in.
fetch(c, h) ==
  /\ Len(poll[c]) < MaxFetch
  /\ h \in 0..Len(client[c].closures)
  /\ poll' = [poll EXCEPT ![c] =
       Append(@, [state |-> "sent", messages |-> <<>>, readAt |-> 0,
                  previous |-> IF h = 0 THEN <<>> ELSE client[c].closures[h]])]
  /\ client' = [client EXCEPT ![c].closures = IF h = 0 THEN @ ELSE splice(@, h)]
  /\ UNCHANGED <<variant, now, fileExists, file, store, slot, hist, nreq>>

\* The adapter's GET serves the k-th request in flight (route.ts:57-65): the
\* response carries the persisted list as its load read it, or no message
\* when the read failed (ok = FALSE; route.ts:18-21, 29-31, 61-64).
Served(c, k, ok) ==
  /\ nreq < MaxReads
  /\ k \in 1..Len(poll[c])
  /\ poll[c][k].state = "sent"
  /\ nreq' = nreq + 1
  /\ poll' = [poll EXCEPT ![c][k] =
       [@ EXCEPT !.state = "back", !.messages = getMessages(ok),
                 !.readAt = nreq + 1]]
  /\ UNCHANGED <<variant, now, fileExists, file, store, slot, hist, client>>

\* The response of the k-th request in flight reaches the client, in whatever
\* order the network delivers, and fetchMessages runs on from line 77.
Resolved(c, k) ==
  /\ k \in 1..Len(poll[c])
  /\ poll[c][k].state = "back"
  /\ LET f == fetchMessages(client[c], poll[c][k].messages, poll[c][k].previous)
     IN client' = [client EXCEPT ![c] =
          [@ EXCEPT !.messages = f.messages,
                    !.lastMessageId = f.lastMessageId,
                    !.newMessageIds = f.newMessageIds,
                    !.readAt = poll[c][k].readAt]]
  /\ poll' = [poll EXCEPT ![c] = splice(@, k)]
  /\ UNCHANGED <<variant, now, fileExists, file, store, slot, hist, nreq>>

\* A list response may also be lost or fail to parse (Fail), the call then
\* ending in its catch (Rejected), and the 500 ms timer of the marks fires
\* (ClearMarks).
FetchNext ==
  \/ \E list \in PolledLists : Stored(list)
  \/ \E c \in Clients : Called(c)
  \/ \E c \in Clients, h \in 1..MaxHandlers : Refused(c, h)
  \/ \E c \in Clients, h \in 0..MaxHandlers : fetch(c, h)
  \/ \E c \in Clients, k \in 1..MaxFetch, ok \in BOOLEAN : Served(c, k, ok)
  \/ \E c \in Clients, k \in 1..MaxFetch : Resolved(c, k)
  \/ \E c \in Clients, k \in 1..MaxFetch : Fail(c, k)
  \/ \E c \in Clients, k \in 1..MaxFetch : Rejected(c, k)
  \/ \E c \in Clients : ClearMarks(c)

FetchSpec == FetchInit /\ [][FetchNext]_vars

\* ------------------------------------------------------------------ C36
\* C36 (as claimed): the client never replaces the list it displays by a
\* different list that the server read earlier than the displayed one.
C36_SnapshotNeverRegresses ==
  [][\A c \in Clients :
       client'[c].readAt < client[c].readAt
         => client'[c].messages = client[c].messages]_vars

\* ------------------------------------------------------------------ page
\* The page (Home, part_002) with the name modal (NameModal.tsx).  A text is
\* the sequence of its UTF-16 code units (32 the space, 9 the tab, 160 the
\* no-break space, 65 "A", 66 "B").  client[c] is the page of browser c:
\* showChat, showNameModal and userName are Home's state (part_002:9-11),
\* name the modal's input (NameModal.tsx:12), stored localStorage's
\* chatUserName ("" when absent), hidden is document.hidden, mounted whether
\* the mount effect has run, clearing the handleClearAllChat calls awaiting
\* their PUT, oldest first (of each the view its closure holds, "chat" when
\* its showChat is true and "calculator" otherwise, and the answer on its way
\* to it: "none" until the server has handled the PUT, then "ok" or
\* "failed"), refreshTimer whether the
\* 100 ms timer of part_002:67 is pending, and hid records that the
\* visibility listener has closed the chat.
\* Calls of handleClearAllChat one page may have awaiting their PUT at a time.
MaxClears == 2
Typed == {NoText, <<32>>, <<9>>, <<65>>, <<9, 65>>, <<32, 66, 160>>}
StoredNames == {NoText, <<65>>}

\* The code units String.prototype.trim strips: WhiteSpace (tab, VT, FF,
\* space, no-break space, the BOM and the space separators of Unicode) and
\* LineTerminator (LF, CR, U+2028, U+2029).
WhiteSpace ==
  {9, 10, 11, 12, 13, 32, 160, 5760} \cup (8192..8202)
    \cup {8232, 8233, 8239, 8287, 12288, 65279}
\* String.prototype.trim (NameModal.tsx:27-29).
RECURSIVE trim(_)
trim(text) ==
  IF text = <<>> THEN text
  ELSE IF Head(text) \in WhiteSpace THEN trim(Tail(text))
  ELSE IF text[Len(text)] \in WhiteSpace THEN trim(SubSeq(text, 1, Len(text) - 1))
  ELSE text

Home ==
  [showChat |-> FALSE, showNameModal |-> FALSE, userName |-> NoText,
   name |-> NoText, stored |-> NoText, hidden |-> FALSE, mounted |-> FALSE,
   clearing |-> <<>>, refreshTimer |-> FALSE, hid |-> FALSE]

PageInit ==
  /\ variant = "kv"
  /\ file = Blank
  /\ now = StartClock
  /\ store \in InitialLists
  /\ fileExists = (store # <<>>)
  /\ slot = [p \in Procs |-> Idle]
  /\ hist = <<>>
  /\ nreq = 0
  /\ client \in {[c \in Clients |-> [Home EXCEPT !.stored = n]] : n \in StoredNames}
  /\ poll = [c \in Clients |-> NoPoll]

\* The modal's effect (NameModal.tsx:15-23): when it opens, or the current
\* name changes while it is open, the input is set to the current name.
Opened(before, after) ==
  IF after.showNameModal
       /\ (~before.showNameModal \/ before.userName # after.userName)
  THEN [after EXCEPT !.name = after.userName]
  ELSE after

\* The mount effect (part_002:14-19).
Mount(h) ==
  Opened(h, [h EXCEPT !.mounted = TRUE,
                      !.userName = IF h.stored # NoText THEN h.stored ELSE @])

\* Mutant: the secret trigger opens the chat whether or not a name is set.
handleSecretTrigger_NoNameNeeded(h) == [h EXCEPT !.showChat = TRUE]

\* handleSecretTrigger (part_002:23-31).
handleSecretTrigger(h) ==
  IF h.userName = NoText
  THEN Opened(h, [h EXCEPT !.showNameModal = TRUE])
  ELSE [h EXCEPT !.showChat = TRUE]

\* handleNameSubmit (part_002:34-41).
handleNameSubmit(h, text) ==
  [h EXCEPT !.userName = text, !.stored = text, !.showNameModal = FALSE,
            !.showChat = IF ~h.showChat THEN TRUE ELSE @]

\* The modal's handleSubmit (NameModal.tsx:25-32): a blank input does nothing.
handleSubmit(h) ==
  IF trim(h.name) # NoText
  THEN [handleNameSubmit([h EXCEPT !.stored = trim(h.name)], trim(h.name))
          EXCEPT !.name = NoText]
  ELSE h

\* handleChangeName (part_002:44-46) and handleBackToCalculator (49-51).
handleChangeName(h) == Opened(h, [h EXCEPT !.showNameModal = TRUE])
handleBackToCalculator(h) == [h EXCEPT !.showChat = FALSE]

\* Mutant: the visibility listener leaves the chat open.
handleVisibilityChange_Ignores(h, isHidden) == [h EXCEPT !.hidden = isHidden]

\* The visibilitychange listener (part_002:78-91), with the document's new
\* hidden state.
handleVisibilityChange(h, isHidden) ==
  [h EXCEPT !.hidden = isHidden,
            !.showChat = IF isHidden /\ h.showChat THEN FALSE ELSE @,
            !.hid = @ \/ (isHidden /\ h.showChat)]

\* The k-th handleClearAllChat call awaited, after its PUT returned
\* (part_002:60-71): ok is response.ok; the showChat it tests is the one of
\* the render that passed the handler to the calculator.
Cleared(h, k, ok) ==
  IF ok /\ h.clearing[k].view = "chat"
  THEN [h EXCEPT !.clearing = splice(@, k), !.showChat = FALSE,
                 !.refreshTimer = TRUE]
  ELSE [h EXCEPT !.clearing = splice(@, k)]

\* The page of browser c goes from its state to h.
Page(c, h) ==
  /\ client' = [client EXCEPT ![c] = h]
  /\ UNCHANGED <<variant, now, fileExists, file, store, slot, hist, nreq, poll>>

Mounts(c) == ~client[c].mounted /\ Page(c, Mount(client[c]))

\* What the user does; a hidden document receives no input.  The calculator
\* is rendered, with its two callbacks, when showChat is false; the chat, with
\* its two, when it is true; the modal when showNameModal is true
\* (part_002:93-121).
Active(c) == client[c].mounted /\ ~client[c].hidden

SecretTrigger(c) ==
  /\ Active(c) /\ ~client[c].showChat
  /\ Page(c, handleSecretTrigger(client[c]))

Type(c, text) ==
  /\ Active(c) /\ client[c].showNameModal /\ client[c].name # text
  /\ Page(c, [client[c] EXCEPT !.name = text])

NameSubmit(c) ==
  /\ Active(c) /\ client[c].showNameModal
  /\ Page(c, handleSubmit(client[c]))

ChangeName(c) ==
  /\ Active(c) /\ client[c].showChat
  /\ Page(c, handleChangeName(client[c]))

BackToCalculator(c) ==
  /\ Active(c) /\ client[c].showChat
  /\ Page(c, handleBackToCalculator(client[c]))

VisibilityChange(c) ==
  /\ client[c].mounted
  /\ Page(c, handleVisibilityChange(client[c], ~client[c].hidden))

\* The calculator calls onClearChat: handleClearAllChat sends its PUT
\* (part_002:54-58), whether or not an earlier call still awaits its own.
ClearAllChat(c) ==
  /\ Active(c) /\ ~client[c].showChat /\ Len(client[c].clearing) < MaxClears
  /\ Page(c, [client[c] EXCEPT !.clearing =
                Append(@, [view |-> IF client[c].showChat THEN "chat"
                                    ELSE "calculator",
                           answer |-> "none"])])

\* The adapter's PUT of the k-th call awaited stored [] and answers 200, or
\* its store failed and it answers 500 (route.ts:212-225); the call still
\* awaits the response.
ClearAllStored(c, k, ok) ==
  /\ k \in 1..Len(client[c].clearing)
  /\ client[c].clearing[k].answer = "none"
  /\ client' = [client EXCEPT ![c].clearing[k].answer =
                  IF ok THEN "ok" ELSE "failed"]
  /\ store' = IF ok THEN <<>> ELSE store
  /\ fileExists' = (ok \/ fileExists)
  /\ UNCHANGED <<variant, now, file, slot, hist, nreq, poll>>

\* The response reaches the k-th call awaited, and that call of
\* handleClearAllChat runs on (part_002:60-71).
ClearAllAnswered(c, k) ==
  /\ k \in 1..Len(client[c].clearing)
  /\ client[c].clearing[k].answer # "none"
  /\ Page(c, Cleared(client[c], k, client[c].clearing[k].answer = "ok"))

PageNext ==
  \/ \E c \in Clients : Mounts(c)
  \/ \E c \in Clients : SecretTrigger(c)
  \/ \E c \in Clients, text \in Typed : Type(c, text)
  \/ \E c \in Clients : NameSubmit(c)
  \/ \E c \in Clients : ChangeName(c)
  \/ \E c \in Clients : BackToCalculator(c)
  \/ \E c \in Clients : VisibilityChange(c)
  \/ \E c \in Clients : ClearAllChat(c)
  \/ \E c \in Clients, k \in 1..MaxClears, ok \in BOOLEAN : ClearAllStored(c, k, ok)
  \/ \E c \in Clients, k \in 1..MaxClears : ClearAllAnswered(c, k)

PageSpec == PageInit /\ [][PageNext]_vars

\* The timer of part_002:67, which would show the chat again, is never armed:
\* the calculator that calls handleClearAllChat is rendered only while
\* showChat is false.
NoRefreshTimer == \A c \in Clients : ~client[c].refreshTimer

\* ------------------------------------------------------------------ C37
\* C37: the chat is shown only with a name set that is non-empty and trimmed;
\* and in every state where the calculator is shown without a name set, the
\* secret trigger opens the name modal and not the chat.
C37_ChatNeedsName ==
  \A c \in Clients :
    /\ client[c].showChat
         => client[c].userName # NoText /\ trim(client[c].userName) = client[c].userName
    /\ (~client[c].showChat /\ client[c].userName = NoText)
         => /\ handleSecretTrigger(client[c]).showNameModal
            /\ ~handleSecretTrigger(client[c]).showChat
\* The chat is shown under the name "B", which was typed between a space and
\* a no-break space into the modal that the secret trigger had opened.
C37_Witness ==
  \E c \in Clients :
    /\ client[c].showChat /\ ~client[c].showNameModal
    /\ client[c].userName = <<66>> /\ client[c].stored = <<66>>

\* ------------------------------------------------------------------ C38
\* C38: when the document becomes hidden while the chat is shown, the chat is
\* hidden in that step; and the chat comes to be shown only by a secret
\* trigger or a name submission.
C38_HiddenTabHidesChat ==
  [][\A c \in Clients :
       /\ (VisibilityChange(c) /\ ~client[c].hidden /\ client[c].showChat)
            => ~client'[c].showChat
       /\ (~client[c].showChat /\ client'[c].showChat)
            => SecretTrigger(c) \/ NameSubmit(c)]_vars
\* The listener has closed the chat, the document is hidden and the
\* calculator is shown, with the name modal left open.
C38_Witness ==
  \E c \in Clients :
    /\ client[c].hid /\ client[c].hidden /\ ~client[c].showChat
    /\ client[c].showNameModal /\ client[c].userName # NoText

\* ------------------------------------------------------------------ numbers
\* The numbers of the calculator are JavaScript numbers: IEEE 754 doubles.
\* A natural number of any size is the sequence of its digits in base Base,
\* the lowest first, with no leading zero digit: <<>> is zero.  A double is
\* NaN, an infinity, or (-1)^neg * m * 2^e with m such a natural number,
\* which is odd unless the double is a zero.  The exponents stay far from the
\* ends of the double's range (2^-1074 and 2^1024) under MaxKeys key presses,
\* so no result overflows or is subnormal.
Base == 2 ^ 15
\* The significant bits of a double
Precision == 53

Max(a, b) == IF a < b THEN b ELSE a

\* The bits of a number below Base, and of a digit
RECURSIVE BitLengthSmall(_)
BitLengthSmall(x) == IF x = 0 THEN 0 ELSE 1 + BitLengthSmall(x \div 2)
BaseBits == BitLengthSmall(Base - 1)

RECURSIVE Limbs(_)
Limbs(n) == IF n = 0 THEN <<>> ELSE <<n % Base>> \o Limbs(n \div Base)

RECURSIVE Normalised(_)
Normalised(a) ==
  IF a # <<>> /\ a[Len(a)] = 0 THEN Normalised(SubSeq(a, 1, Len(a) - 1)) ELSE a

Limb(a) == IF a = <<>> THEN 0 ELSE a[1]
Rest(a) == IF a = <<>> THEN a ELSE Tail(a)

\* a < b
Less(a, b) ==
  \/ Len(a) < Len(b)
  \/ /\ Len(a) = Len(b)
     /\ \E i \in 1..Len(a) :
          a[i] < b[i] /\ \A j \in (i + 1)..Len(a) : a[j] = b[j]

RECURSIVE PlusCarry(_, _, _)
PlusCarry(a, b, carry) ==
  IF a = <<>> /\ b = <<>>
  THEN (IF carry = 0 THEN <<>> ELSE <<carry>>)
  ELSE LET x == Limb(a) + Limb(b) + carry
       IN <<x % Base>> \o PlusCarry(Rest(a), Rest(b), x \div Base)
Plus(a, b) == PlusCarry(a, b, 0)

\* a - b, for b <= a
RECURSIVE MinusBorrow(_, _, _)
MinusBorrow(a, b, borrow) ==
  IF a = <<>> THEN <<>>
  ELSE LET x == a[1] - Limb(b) - borrow
       IN IF x < 0 THEN <<x + Base>> \o MinusBorrow(Tail(a), Rest(b), 1)
          ELSE <<x>> \o MinusBorrow(Tail(a), Rest(b), 0)
Minus(a, b) == Normalised(MinusBorrow(a, b, 0))

\* a * k + carry, for k and carry below Base
RECURSIVE TimesSmall(_, _, _)
TimesSmall(a, k, carry) ==
  IF a = <<>> THEN (IF carry = 0 THEN <<>> ELSE <<carry>>)
  ELSE LET x == a[1] * k + carry
       IN <<x % Base>> \o TimesSmall(Tail(a), k, x \div Base)

ShiftLimbs(a, n) == IF a = <<>> THEN a ELSE [i \in 1..n |-> 0] \o a

RECURSIVE Times(_, _)
Times(a, b) ==
  IF a = <<>> \/ b = <<>> THEN <<>>
  ELSE Plus(Normalised(TimesSmall(a, b[1], 0)), ShiftLimbs(Times(a, Tail(b)), 1))

\* a * 2^n
ShiftLeft(a, n) ==
  ShiftLimbs(TimesSmall(a, 2 ^ (n % BaseBits), 0), n \div BaseBits)

\* Quotient and remainder of a by k, for k in 1..Base-1
RECURSIVE DivSmall(_, _)
DivSmall(a, k) ==
  IF a = <<>> THEN [q |-> <<>>, r |-> 0]
  ELSE LET hi == DivSmall(Tail(a), k)
           x == hi.r * Base + a[1]
       IN [q |-> IF hi.q = <<>> /\ x \div k = 0 THEN <<>>
                 ELSE <<x \div k>> \o hi.q,
           r |-> x % k]

\* The whole part of a / 2^n
ShiftRight(a, n) ==
  DivSmall(SubSeq(a, n \div BaseBits + 1, Len(a)), 2 ^ (n % BaseBits)).q

BitLength(a) ==
  IF a = <<>> THEN 0 ELSE BaseBits * (Len(a) - 1) + BitLengthSmall(a[Len(a)])

RECURSIVE TrailingZerosSmall(_)
TrailingZerosSmall(x) ==
  IF x % 2 = 1 THEN 0 ELSE 1 + TrailingZerosSmall(x \div 2)
\* The number of zero bits at the low end of a, for a # 0
RECURSIVE TrailingZeros(_)
TrailingZeros(a) ==
  IF a[1] = 0 THEN BaseBits + TrailingZeros(Tail(a))
  ELSE TrailingZerosSmall(a[1])

\* Long division in base 2: the n low bits of limb are brought down to the
\* remainder r (r < b) one by one, q collecting the bits of the quotient.
RECURSIVE DivBits(_, _, _, _, _)
DivBits(r, limb, b, n, q) ==
  IF n = 0 THEN [q |-> q, r |-> r]
  ELSE LET bit == (limb \div 2 ^ (n - 1)) % 2
           r2 == TimesSmall(r, 2, bit)
       IN IF Less(r2, b) THEN DivBits(r2, limb, b, n - 1, 2 * q)
          ELSE DivBits(Minus(r2, b), limb, b, n - 1, 2 * q + 1)

\* Quotient and remainder of a by b, for b # 0
RECURSIVE Divide(_, _)
Divide(a, b) ==
  IF a = <<>> THEN [q |-> <<>>, r |-> <<>>]
  ELSE LET hi == Divide(Tail(a), b)
           d == DivBits(hi.r, a[1], b, BaseBits, 0)
       IN [q |-> IF hi.q = <<>> /\ d.q = 0 THEN <<>> ELSE <<d.q>> \o hi.q,
           r |-> d.r]

NaN == [kind |-> "NaN", neg |-> FALSE, m |-> <<>>, e |-> 0]
Infinity(neg) == [kind |-> "Infinity", neg |-> neg, m |-> <<>>, e |-> 0]
\* (-1)^neg * m * 2^e, for m of at most Precision bits once its low zero
\* bits are dropped
Finite(neg, m, e) ==
  IF m = <<>> THEN [kind |-> "finite", neg |-> neg, m |-> <<>>, e |-> 0]
  ELSE LET z == TrailingZeros(m)
       IN [kind |-> "finite", neg |-> neg, m |-> ShiftRight(m, z), e |-> e + z]
\* The integer n as a double
Num(n) == Finite(n < 0, Limbs(IF n < 0 THEN -n ELSE n), 0)
IsZero(x) == x.kind = "finite" /\ x.m = <<>>
Negated(x) == IF x.kind = "NaN" THEN x ELSE [x EXCEPT !.neg = ~x.neg]

\* The double nearest to (-1)^neg * n * 2^e, or to a little more than n in
\* place of n when sticky (n then has more than Precision + 1 bits): a tie
\* goes to the even neighbour.
Round(neg, n, e, sticky) ==
  LET d == BitLength(n) - Precision
  IN IF d <= 0 THEN Finite(neg, n, e)
     ELSE LET q == ShiftRight(n, d)
              r == Minus(n, ShiftLeft(q, d))
              half == ShiftLeft(<<1>>, d - 1)
              up == Less(half, r) \/ (r = half /\ (sticky \/ q[1] % 2 = 1))
          IN Finite(neg, IF up THEN Plus(q, <<1>>) ELSE q, e + d)

\* The double nearest to (-1)^neg * (a / b) * 2^e, for a # 0 and b # 0
RoundRatio(neg, a, b, e) ==
  LET s == Max(0, Precision + 3 + BitLength(b) - BitLength(a))
      d == Divide(ShiftLeft(a, s), b)
  IN Round(neg, d.q, e - s, d.r # <<>>)

\* x + y
Add(x, y) ==
  IF x.kind = "NaN" \/ y.kind = "NaN" THEN NaN
  ELSE IF x.kind = "Infinity"
       THEN (IF y.kind = "Infinity" /\ y.neg # x.neg THEN NaN ELSE x)
  ELSE IF y.kind = "Infinity" THEN y
  ELSE IF IsZero(x) /\ IsZero(y) THEN Finite(x.neg /\ y.neg, <<>>, 0)
  ELSE LET e == IF IsZero(x) THEN y.e ELSE IF IsZero(y) THEN x.e
                ELSE IF x.e < y.e THEN x.e ELSE y.e
           a == IF IsZero(x) THEN <<>> ELSE ShiftLeft(x.m, x.e - e)
           b == IF IsZero(y) THEN <<>> ELSE ShiftLeft(y.m, y.e - e)
       IN IF x.neg = y.neg THEN Round(x.neg, Plus(a, b), e, FALSE)
          ELSE IF Less(b, a) THEN Round(x.neg, Minus(a, b), e, FALSE)
          ELSE IF Less(a, b) THEN Round(y.neg, Minus(b, a), e, FALSE)
          ELSE Finite(FALSE, <<>>, 0)

\* x * y
Mul(x, y) ==
  IF x.kind = "NaN" \/ y.kind = "NaN" THEN NaN
  ELSE IF x.kind = "Infinity" \/ y.kind = "Infinity"
       THEN (IF IsZero(x) \/ IsZero(y) THEN NaN ELSE Infinity(x.neg # y.neg))
  ELSE Round(x.neg # y.neg, Times(x.m, y.m), x.e + y.e, FALSE)

\* x / y
Div(x, y) ==
  IF x.kind = "NaN" \/ y.kind = "NaN" THEN NaN
  ELSE IF x.kind = "Infinity"
       THEN (IF y.kind = "Infinity" THEN NaN ELSE Infinity(x.neg # y.neg))
  ELSE IF y.kind = "Infinity" THEN Finite(x.neg # y.neg, <<>>, 0)
  ELSE IF IsZero(y)
       THEN (IF IsZero(x) THEN NaN ELSE Infinity(x.neg # y.neg))
  ELSE IF IsZero(x) THEN Finite(x.neg # y.neg, <<>>, 0)
  ELSE RoundRatio(x.neg # y.neg, x.m, y.m, x.e - y.e)

\* x === y
StrictEquals(x, y) ==
  /\ x.kind # "NaN"
  /\ y.kind # "NaN"
  /\ x.kind = y.kind /\ x.m = y.m /\ x.e = y.e
  /\ x.neg = y.neg \/ IsZero(x)

\* Mutant: the integer above x, in place of the nearest.
MathRound_Ceiling(x) ==
  IF x.kind # "finite" \/ x.e >= 0 THEN x
  ELSE LET q == ShiftRight(x.m, -x.e)
       IN Finite(x.neg, IF x.neg THEN q ELSE Plus(q, <<1>>), 0)

\* Math.round(x): the integer nearest to x, the upper one of two as near
\* (-0 for a negative x that rounds to zero); NaN and the infinities stay.
MathRound(x) ==
  IF x.kind # "finite" \/ x.e >= 0 THEN x
  ELSE LET q == ShiftRight(x.m, -x.e)
           r == Minus(x.m, ShiftLeft(q, -x.e))
           half == ShiftLeft(<<1>>, -x.e - 1)
           up == IF x.neg THEN Less(half, r) ELSE ~Less(r, half)
       IN Finite(x.neg, IF up THEN Plus(q, <<1>>) ELSE q, 0)

\* The digit a character of the display is
DigitOf(ch) == CHOOSE n \in 0..9 : ToString(n) = ch
\* The digits of a text as a natural number
RECURSIVE DigitsValue(_, _)
DigitsValue(string, n) ==
  IF string = "" THEN n
  ELSE DigitsValue(SubSeq(string, 2, Len(string)),
                   TimesSmall(n, 10, DigitOf(SubSeq(string, 1, 1))))
RECURSIVE PowerOfTen(_)
PowerOfTen(k) == IF k = 0 THEN <<1>> ELSE TimesSmall(PowerOfTen(k - 1), 10, 0)
\* The place of the first "." of a text, 0 if it has none (indexOf, from 1)
IndexOfPoint(string) ==
  IF \E i \in 1..Len(string) : SubSeq(string, i, i) = "."
  THEN CHOOSE i \in 1..Len(string) :
         /\ SubSeq(string, i, i) = "."
         /\ \A j \in 1..(i - 1) : SubSeq(string, j, j) # "."
  ELSE 0
\* parseFloat of a text of digits with at most one ".", which is every text
\* the keys can type: the double nearest to the decimal.
parseDecimal(string) ==
  LET point == IndexOfPoint(string)
      digits == IF point = 0 THEN string
                ELSE SubSeq(string, 1, point - 1)
                       \o SubSeq(string, point + 1, Len(string))
      places == IF point = 0 THEN 0 ELSE Len(string) - point
      n == DigitsValue(digits, <<>>)
  IN IF n = <<>> THEN Num(0) ELSE RoundRatio(FALSE, n, PowerOfTen(places), 0)

\* ------------------------------------------------------------------ calculator
\* The calculator (part_003).  client[c] is the calculator of browser c:
\* display, previousValue, operation and waitingForOperand are its state
\* (part_003:11-14); key is the last key pressed, called the callbacks that
\* key press called, and point whether the "." key has been pressed since
\* the calculator was mounted or cleared.  nreq counts the key presses, at
\* most MaxKeys.
\* The display is a text the keys typed (Text) or the text of a result
\* (String).  The handlers read a result's text through parseFloat alone (the
\* key pressed after a result replaces the display, waitingForOperand being
\* TRUE), so that text is held as the number parseFloat reads from it.
MaxKeys == 6
Digits == {"0", "1", "2", "5", "9"}
Operations == {"+", "-", "*", "/"}
CLEAR_CHAT_VALUE == 1010
SECRET_TRIGGER_VALUES == {58}

Null == [null |-> TRUE, value |-> Num(0)]
Number(x) == [null |-> FALSE, value |-> x]

Text(string) == [result |-> FALSE, string |-> string, value |-> Num(0)]
\* String(x): the shortest decimal that reads back as x, "Infinity", "NaN",
\* and "0" for -0.
String(x) ==
  [result |-> TRUE, string |-> "", value |-> IF IsZero(x) THEN Num(0) ELSE x]
parseFloat(display) ==
  IF display.result THEN display.value ELSE parseDecimal(display.string)

Calculator ==
  [display |-> Text("0"), previousValue |-> Null, operation |-> "null",
   waitingForOperand |-> FALSE, key |-> "none", called |-> {},
   point |-> FALSE]

CalcInit ==
  /\ variant = "kv"
  /\ file = Blank
  /\ now = StartClock
  /\ store = <<>>
  /\ fileExists = FALSE
  /\ slot = [p \in Procs |-> Idle]
  /\ hist = <<>>
  /\ nreq = 0
  /\ client = [c \in Clients |-> Calculator]
  /\ poll = [c \in Clients |-> NoPoll]

\* calculate (part_003:56-71).
calculate(firstValue, secondValue, op) ==
  CASE op = "+" -> Add(firstValue, secondValue)
    [] op = "-" -> Add(firstValue, Negated(secondValue))
    [] op = "*" -> Mul(firstValue, secondValue)
    [] op = "/" -> Div(firstValue, secondValue)
    [] OTHER -> secondValue

\* The callbacks called for a result (part_003:40-49, 83-92); Home passes
\* both callbacks.
Callbacks(newValue) ==
  LET roundedValue == MathRound(newValue)
  IN IF StrictEquals(roundedValue, Num(CLEAR_CHAT_VALUE)) THEN {"onClearChat"}
     ELSE IF \E v \in SECRET_TRIGGER_VALUES : StrictEquals(roundedValue, Num(v))
          THEN {"onSecretTrigger"}
          ELSE {}

\* inputNumber (part_003:19-26): the digit replaces the display when an
\* operand is awaited or the display is "0", and is appended otherwise.
inputNumber(k, num) ==
  [k EXCEPT !.key = "digit", !.called = {},
            !.display = IF k.waitingForOperand \/ k.display.string = "0"
                        THEN Text(num) ELSE Text(k.display.string \o num),
            !.waitingForOperand = FALSE]

\* inputDecimal (part_003:103-110): "0." when an operand is awaited; a "."
\* appended to a display that has none; nothing otherwise.
inputDecimal(k) ==
  [k EXCEPT !.key = ".", !.called = {}, !.point = TRUE,
            !.display = IF k.waitingForOperand THEN Text("0.")
                        ELSE IF IndexOfPoint(k.display.string) = 0
                             THEN Text(k.display.string \o ".")
                             ELSE k.display,
            !.waitingForOperand = FALSE]

\* previousValue || 0: 0 for a previousValue of 0, -0 or NaN.
OrZero(x) == IF IsZero(x) \/ x.kind = "NaN" THEN Num(0) ELSE x

\* inputOperation (part_003:28-54).
inputOperation(k, nextOperation) ==
  LET inputValue == parseFloat(k.display)
      currentValue == OrZero(k.previousValue.value)
      newValue == calculate(currentValue, inputValue, k.operation)
      after == [k EXCEPT !.key = nextOperation, !.waitingForOperand = TRUE,
                         !.operation = nextOperation]
  IN IF k.previousValue.null
     THEN [after EXCEPT !.previousValue = Number(inputValue), !.called = {}]
     ELSE IF k.operation # "null"
          THEN [after EXCEPT !.display = String(newValue),
                             !.previousValue = Number(newValue),
                             !.called = Callbacks(newValue)]
          ELSE [after EXCEPT !.called = {}]

\* performCalculation (part_003:73-94).
performCalculation(k) ==
  LET inputValue == parseFloat(k.display)
      newValue == calculate(k.previousValue.value, inputValue, k.operation)
  IN IF ~k.previousValue.null /\ k.operation # "null"
     THEN [k EXCEPT !.key = "=", !.display = String(newValue),
                    !.previousValue = Null, !.operation = "null",
                    !.waitingForOperand = TRUE, !.called = Callbacks(newValue)]
     ELSE [k EXCEPT !.key = "=", !.called = {}]

\* clear (part_003:96-101).
clear(k) == [Calculator EXCEPT !.key = "clear"]

\* A key press takes the calculator of browser c to k.
Pressed(c, k) ==
  /\ nreq < MaxKeys
  /\ nreq' = nreq + 1
  /\ client' = [client EXCEPT ![c] = k]
  /\ UNCHANGED <<variant, now, fileExists, file, store, slot, hist, poll>>

DigitKey(c, num) == Pressed(c, inputNumber(client[c], num))
DecimalKey(c) == Pressed(c, inputDecimal(client[c]))
OperationKey(c, op) == Pressed(c, inputOperation(client[c], op))
EqualsKey(c) == Pressed(c, performCalculation(client[c]))
ClearKey(c) == Pressed(c, clear(client[c]))

CalcNext ==
  \/ \E c \in Clients, num \in Digits : DigitKey(c, num)
  \/ \E c \in Clients : DecimalKey(c)
  \/ \E c \in Clients, op \in Operations : OperationKey(c, op)
  \/ \E c \in Clients : EqualsKey(c)
  \/ \E c \in Clients : ClearKey(c)

CalcSpec == CalcInit /\ [][CalcNext]_vars

\* ------------------------------------------------------------------ C39
\* An operation is pending: the next operation key or "=" completes a
\* calculation.
Pending(k) == ~k.previousValue.null /\ k.operation # "null"
\* The result of the calculation that key completes on calculator k
\* (part_003:34-35, 76-77): newValue.
Result(k, key) ==
  calculate(IF key = "=" THEN k.previousValue.value
            ELSE OrZero(k.previousValue.value),
            parseFloat(k.display), k.operation)

\* x < y, for finite x and y
Below(x, y) ==
  LET e == IF x.e < y.e THEN x.e ELSE y.e
      a == ShiftLeft(x.m, x.e - e)
      b == ShiftLeft(y.m, y.e - e)
  IN IF x.neg /\ ~y.neg THEN a # <<>> \/ b # <<>>
     ELSE IF ~x.neg /\ y.neg THEN FALSE
     ELSE IF x.neg THEN Less(b, a) ELSE Less(a, b)
\* n is the integer nearest to x, the upper one of two as near:
\* n - 1/2 <= x < n + 1/2.
Nearest(x, n) ==
  /\ x.kind = "finite"
  /\ ~Below(x, Finite(FALSE, Limbs(2 * n - 1), -1))
  /\ Below(x, Finite(FALSE, Limbs(2 * n + 1), -1))

\* C39 (as claimed): while the keys pressed are digits, operations, "=" and
\* clear (integer inputs), a key press calls onClearChat exactly when it
\* completes a calculation (an operation key or "=" with an operation
\* pending) whose result is 1010, and onSecretTrigger exactly when that
\* result is 58; it never calls both, and a digit or a first operation key
\* calls neither.
C39_CallsOnExactResult ==
  [][\A c \in Clients :
       LET k == client[c]
           completed == client'[c].key \in Operations \cup {"="} /\ Pending(k)
           called == client'[c].called
       IN \A result \in {IF completed /\ ~k.point THEN Result(k, client'[c].key)
                        ELSE NaN} :
          ~client'[c].point =>
            /\ "onClearChat" \in called
                 <=> (completed /\ StrictEquals(result, Num(CLEAR_CHAT_VALUE)))
            /\ "onSecretTrigger" \in called
                 <=> (completed /\ \E v \in SECRET_TRIGGER_VALUES :
                                     StrictEquals(result, Num(v)))
            /\ Cardinality(called) <= 1
            /\ (client'[c].key = "digit"
                  \/ (client'[c].key \in Operations /\ k.previousValue.null))
                 => called = {}]_vars
\* C39 (amended): whatever keys are pressed, the "." key among them, a key
\* press calls onClearChat exactly when it completes a calculation whose
\* result has 1010 as its nearest integer (the upper one of two as near), and
\* onSecretTrigger exactly when that integer is 58; it never calls both, and
\* a digit, a "." or a first operation key calls neither.
C39_CallsOnRoundedResult ==
  [][\A c \in Clients :
       LET k == client[c]
           completed == client'[c].key \in Operations \cup {"="} /\ Pending(k)
           called == client'[c].called
       IN \A result \in {IF completed THEN Result(k, client'[c].key) ELSE NaN} :
            /\ "onClearChat" \in called
                 <=> (completed /\ Nearest(result, CLEAR_CHAT_VALUE))
            /\ "onSecretTrigger" \in called
                 <=> (completed /\ \E v \in SECRET_TRIGGER_VALUES :
                                     Nearest(result, v))
            /\ Cardinality(called) <= 1
            /\ (client'[c].key \in {"digit", "."}
                  \/ (client'[c].key \in Operations /\ k.previousValue.null))
                 => called = {}]_vars
\* With digit keys alone for operands, "=" has just shown a result above 58
\* (and below 58.5: it is not 58 and rounds down to it) and has called
\* onSecretTrigger.
C39_Witness ==
  \E c \in Clients :
    /\ client[c].key = "="
    /\ ~client[c].point
    /\ client[c].display.result
    /\ Below(Num(58), client[c].display.value)
    /\ client[c].called = {"onSecretTrigger"}

====
